---- MODULE Spec2Model ----
(***************************************************************************)
(* A model of the Permit Buddy HTTP API (maveric/remindme): the identity    *)
(* bridge, the profile, company and document routes, the file relay and    *)
(* the submit route, over the relational tables they read and write.       *)
(*                                                                         *)
(* JavaScript values are tagged records: Undef (an absent key), Null,      *)
(* Str(s), Num(n), Bool(b), NaN, Infinity.  A string is a sequence of       *)
(* chunks (each chunk a run of characters that the code never splits), so   *)
(* that trim, startsWith, split, toUpperCase and parseInt are computed and  *)
(* not assumed.  A request handler is an operator from the database and    *)
(* the request to the new database and the response; an action applies it. *)
(***************************************************************************)
EXTENDS Integers, Sequences, FiniteSets, TLC

VARIABLES
    users,               \* table User: rows [id, email, name, phone]
    businesses,          \* table Business
    documents,           \* table BusinessDocument
    businessTypes,       \* lookup table BusinessType: rows [id, name]
    jurisdictions,       \* lookup table Jurisdiction
    issuingAuthorities,  \* lookup table IssuingAuthority
    permitTypes,         \* lookup table PermitType
    nextBusinessId,      \* autoincrement sequence of Business.id
    nextDocumentId,      \* autoincrement sequence of BusinessDocument.id
    uuidsUsed,           \* how many randomUUID() user ids have been handed out
    objects,             \* storage: the paths of the objects in the bucket
    deletedBusinessIds,  \* history: ids a DELETE /businesses/{id} answered 200 for
    inflight,            \* the requests between two awaits: what each has read so far
    client,              \* the permit form of the dashboard page of User1
    last                 \* the request handled last and the response it got

vars == <<users, businesses, documents, businessTypes, jurisdictions,
          issuingAuthorities, permitTypes, nextBusinessId, nextDocumentId,
          uuidsUsed, objects, deletedBusinessIds, inflight, client, last>>

----------------------------------------------------------------------------
(* Bounds of the model. *)

\* Business.id values the sequence may hand out.
MaxBusinessId == 2
\* BusinessDocument.id values the sequence may hand out.
MaxDocumentId == 1
\* Users the submit route may create with a random id.
MaxUuids == 1
\* Objects the extraction gateway may upload.
MaxObjects == 1
MaxInFlight == 2
MaxNow == 4

----------------------------------------------------------------------------
(* JavaScript values. *)

Undef == [t |-> "undef"]
Null == [t |-> "null"]
NaN == [t |-> "nan"]
Infinity == [t |-> "inf"]
Str(s) == [t |-> "str", v |-> s]
Num(n) == [t |-> "num", v |-> n]
Bool(b) == [t |-> "bool", v |-> b]

IsStr(x) == x.t = "str"
IsNum(x) == x.t \in {"num", "nan", "inf"}
\* x ?? y
Coalesce(x, y) == IF x.t \in {"undef", "null"} THEN y ELSE x

\* Character classes of chunks.
Whitespace == {" ", "\t", "\n"}
Digits == {"0", "1", "2", "3", "4", "5", "6", "7", "8", "9"}
DigitValue(c) ==
    CASE c = "0" -> 0 [] c = "1" -> 1 [] c = "2" -> 2 [] c = "3" -> 3
      [] c = "4" -> 4 [] c = "5" -> 5 [] c = "6" -> 6 [] c = "7" -> 7
      [] c = "8" -> 8 [] c = "9" -> 9

\* String.prototype.trim
RECURSIVE TrimStart(_)
TrimStart(s) ==
    IF s # <<>> /\ Head(s) \in Whitespace THEN TrimStart(Tail(s)) ELSE s

RECURSIVE TrimEnd(_)
TrimEnd(s) ==
    IF s # <<>> /\ s[Len(s)] \in Whitespace
    THEN TrimEnd(SubSeq(s, 1, Len(s) - 1))
    ELSE s

Trim(s) == TrimEnd(TrimStart(s))

\* String.prototype.startsWith
StartsWith(s, prefix) ==
    Len(s) >= Len(prefix) /\ SubSeq(s, 1, Len(prefix)) = prefix

\* toUpperCase / toLowerCase of one chunk; chunks without letters map to
\* themselves.
UpperChunk(c) ==
    CASE c = "a" -> "A"
      [] c = "b" -> "B"
      [] c = "r" -> "R"
      [] c = "z" -> "Z"
      [] c = "permit" -> "PERMIT"
      [] c = "license" -> "LICENSE"
      [] c = "active" -> "ACTIVE"
      [] c = "expired" -> "EXPIRED"
      [] c = "Expired" -> "EXPIRED"
      [] c = "pending" -> "PENDING"
      [] c = "renewal" -> "RENEWAL"
      [] c = "activation" -> "ACTIVATION"
      [] c = "Restaurant" -> "RESTAURANT"
      [] c = "restaurant" -> "RESTAURANT"
      [] OTHER -> c

LowerChunk(c) ==
    CASE c = "A" -> "a"
      [] c = "B" -> "b"
      [] c = "R" -> "r"
      [] c = "Z" -> "z"
      [] c = "PDF" -> "pdf"
      [] c = "Restaurant" -> "restaurant"
      [] c = "RESTAURANT" -> "restaurant"
      [] c = "Food" -> "food"
      [] c = "Truck" -> "truck"
      [] OTHER -> c

ToUpperCase(s) == [i \in 1..Len(s) |-> UpperChunk(s[i])]
ToLowerCase(s) == [i \in 1..Len(s) |-> LowerChunk(s[i])]

\* typeof v === "string" ? v.trim() : ""
TrimmedOrEmpty(v) == IF IsStr(v) THEN Trim(v.v) ELSE <<>>

\* The digits at the front of s, as a number: the loop of parseInt.
RECURSIVE LeadingDigits(_, _)
LeadingDigits(s, acc) ==
    IF s # <<>> /\ Head(s) \in Digits
    THEN LeadingDigits(Tail(s), 10 * acc + DigitValue(Head(s)))
    ELSE acc

\* Number.parseInt(s, 10): leading white space skipped, an optional sign, then
\* the longest run of digits; NaN when there is no digit.
ParseInt(s) ==
    LET t == TrimStart(s)
        neg == t # <<>> /\ Head(t) = "-"
        body == IF t # <<>> /\ Head(t) \in {"-", "+"} THEN Tail(t) ELSE t
    IN  IF body = <<>> \/ Head(body) \notin Digits
        THEN NaN
        ELSE Num((IF neg THEN -1 ELSE 1) * LeadingDigits(body, 0))

\* Number(s) of a route parameter: the whole trimmed string must be a decimal
\* integer (the empty string gives 0), otherwise NaN.
NumberOf(s) ==
    LET t == Trim(s)
        neg == t # <<>> /\ Head(t) = "-"
        body == IF t # <<>> /\ Head(t) \in {"-", "+"} THEN Tail(t) ELSE t
    IN  IF t = <<>>
        THEN Num(0)
        ELSE IF body # <<>> /\ \A i \in 1..Len(body) : body[i] \in Digits
             THEN Num((IF neg THEN -1 ELSE 1) * LeadingDigits(body, 0))
             ELSE NaN

\* Number.isFinite
IsFinite(x) == x.t = "num"


----------------------------------------------------------------------------
(* The designated storage bucket. *)

PERMIT_FILES_BUCKET == <<"permit-files">>

----------------------------------------------------------------------------
(* The database, as the handlers see it. *)

DB ==
    [users |-> users, businesses |-> businesses, documents |-> documents,
     businessTypes |-> businessTypes, jurisdictions |-> jurisdictions,
     issuingAuthorities |-> issuingAuthorities, permitTypes |-> permitTypes,
     nextBusinessId |-> nextBusinessId, nextDocumentId |-> nextDocumentId,
     uuidsUsed |-> uuidsUsed, objects |-> objects]

\* What a handler returns: the database it leaves and the HTTP response.
\* kind is "json" for NextResponse.json, "bytes" for a streamed file and
\* "unhandled" when an exception escapes the handler.
Reply(db, status, error, body) ==
    [db |-> db, resp |-> [kind |-> "json", status |-> status,
                          error |-> error, body |-> body]]

Unhandled(db, message) ==
    [db |-> db, resp |-> [kind |-> "unhandled", status |-> 500,
                          error |-> message, body |-> Null]]

\* A response with the requests the handler has sent to the storage service
\* and to the hosted model, in the order it sent them.
Traced(r, calls) ==
    [db |-> r.db, resp |-> [kind |-> r.resp.kind, status |-> r.resp.status,
                            error |-> r.resp.error, body |-> r.resp.body,
                            calls |-> calls]]

----------------------------------------------------------------------------
(* The identity provider's users and the identity bridge. *)

\* Two accounts of the identity provider: one with an e-mail address only,
\* one with a full_name in its metadata.
User1 ==
    [id |-> <<"u1">>, email |-> Str(<<"a", "@", "x">>),
     full_name |-> Undef, name |-> Undef]
User2 ==
    [id |-> <<"u2">>, email |-> Str(<<"b", "@", "x">>),
     full_name |-> Str(<<" ", "Bo", " ">>), name |-> Undef]
Identities == {User1, User2}

\* supabase.auth.getUser(): a user, no user and no error, or an error.
AuthUser(u) == [kind |-> "user", user |-> u]
AuthNone == [kind |-> "none"]
AuthError == [kind |-> "error"]
AuthErrorMessage == "invalid JWT"

FALLBACK_NAME == <<"Permit Buddy User">>

\* email.split("@")[0]
RECURSIVE LocalPart(_)
LocalPart(s) ==
    IF s = <<>> \/ Head(s) = "@" THEN <<>> ELSE <<Head(s)>> \o LocalPart(Tail(s))

\* s.charAt(0).toUpperCase() + s.slice(1); the first chunk of a local part is
\* one character.
Capitalize(s) == IF s = <<>> THEN <<>> ELSE <<UpperChunk(Head(s))>> \o Tail(s)

resolveName(user) ==
    LET fullName == IF IsStr(user.full_name) THEN Trim(user.full_name.v) ELSE <<>>
        plainName == IF IsStr(user.name) THEN Trim(user.name.v) ELSE <<>>
        metadataName == IF fullName # <<>> THEN fullName ELSE plainName
    IN  IF Len(metadataName) > 0
        THEN metadataName
        ELSE IF IsStr(user.email) /\ user.email.v # <<>>
             THEN Capitalize(LocalPart(user.email.v))
             ELSE FALLBACK_NAME

\* User.email is a unique column (the submit route reads it with findUnique):
\* a write that gives a row the e-mail address of another row fails.
EmailTaken(rows, id, email) ==
    \E r \in rows : r.email = email /\ r.id # id

UniqueViolationMessage == "Unique constraint failed on the fields: email"

\* prisma.user.upsert: [ok, users, row].
ensureProfile(rows, user) ==
    LET email == IF IsStr(user.email) THEN user.email.v ELSE <<>>
        name == resolveName(user)
        present == {r \in rows : r.id = user.id}
        row == IF present = {}
               THEN [id |-> user.id, email |-> email, name |-> name, phone |-> Null]
               ELSE [(CHOOSE r \in present : TRUE) EXCEPT !.email = email, !.name = name]
    IN  IF EmailTaken(rows, user.id, email)
        THEN [ok |-> FALSE, users |-> rows, row |-> Null]
        ELSE [ok |-> TRUE, users |-> (rows \ present) \cup {row}, row |-> row]

\* requireUser / resolveUser of the routes: [outcome, db, user], the outcome
\* being "user", "none" (answered 401) or "throw" (answered by the catch).
requireUser(db, auth) ==
    IF auth.kind = "error"
    THEN [outcome |-> "throw", db |-> db, user |-> Null, message |-> AuthErrorMessage]
    ELSE IF auth.kind = "none"
    THEN [outcome |-> "none", db |-> db, user |-> Null, message |-> ""]
    ELSE LET e == ensureProfile(db.users, auth.user)
         IN  IF e.ok
             THEN [outcome |-> "user", db |-> [db EXCEPT !.users = e.users],
                   user |-> auth.user, message |-> ""]
             ELSE [outcome |-> "throw", db |-> db, user |-> Null,
                   message |-> UniqueViolationMessage]

----------------------------------------------------------------------------
(* GET and PATCH /api/profile. *)

ProfileGET(db, req) ==
    LET a == requireUser(db, req.auth)
    IN  IF a.outcome = "throw" THEN Reply(a.db, 500, a.message, Null)
        ELSE IF a.outcome = "none" THEN Reply(a.db, 401, "Unauthorized", Null)
        ELSE LET profile == {r \in a.db.users : r.id = a.user.id}
                 row == CHOOSE r \in profile : TRUE
             IN  Reply(a.db, 200, "",
                       [id |-> a.user.id, email |-> a.user.email,
                        name |-> IF profile = {} THEN Null ELSE Str(row.name),
                        phone |-> IF profile = {} THEN Null ELSE row.phone])

ProfilePATCH(db, req) ==
    LET a == requireUser(db, req.auth)
        payload == req.payload
        name == TrimmedOrEmpty(payload.name)
        phone == TrimmedOrEmpty(payload.phone)
    IN  IF a.outcome = "throw" THEN Reply(a.db, 500, a.message, Null)
        ELSE IF a.outcome = "none" THEN Reply(a.db, 401, "Unauthorized", Null)
        ELSE IF req.badJson THEN Reply(a.db, 500, "Unexpected end of JSON input", Null)
        ELSE IF name = <<>> THEN Reply(a.db, 400, "Name is required", Null)
        ELSE LET email == IF IsStr(a.user.email) THEN a.user.email.v ELSE <<>>
                 present == {r \in a.db.users : r.id = a.user.id}
                 updated == [(CHOOSE r \in present : TRUE) EXCEPT
                                !.name = name,
                                !.phone = IF phone # <<>> THEN Str(phone) ELSE Null,
                                !.email = email]
             IN  IF present = {}
                 THEN Reply(a.db, 500, "Record to update not found.", Null)
                 ELSE IF EmailTaken(a.db.users, a.user.id, email)
                 THEN Reply(a.db, 500, UniqueViolationMessage, Null)
                 ELSE Reply([a.db EXCEPT !.users = (@ \ present) \cup {updated}],
                            200, "",
                            [id |-> updated.id, email |-> Str(updated.email),
                             name |-> Str(updated.name), phone |-> updated.phone])

----------------------------------------------------------------------------
(* The lookup tables: find by name, else insert. *)

\* A faulty variant of FindByName: the query finds nothing.
FindNothing(table, name) == {}

\* prisma.<lookup>.findFirst({ where: { name } }): the matching rows; the one
\* with the least id is the one returned.
FindByName(table, name) == {r \in table : r.name = name}

FirstOf(rows) == CHOOSE r \in rows : \A o \in rows : r.id <= o.id

\* A mutant of findOrCreate: labels are stored in lower case.
findOrCreateLowerCase(table, name) ==
    LET existing == FindByName(table, ToLowerCase(name))
        created == [id |-> Cardinality(table) + 1, name |-> ToLowerCase(name)]
    IN  IF existing # {}
        THEN [row |-> FirstOf(existing), table |-> table]
        ELSE [row |-> created, table |-> table \cup {created}]

\* findOrCreateBusinessType, findOrCreateJurisdiction, findOrCreatePermitType
\* and findOrCreateIssuingAuthority, which differ in the table only:
\* [row, table].
findOrCreate(table, name) ==
    LET existing == FindByName(table, name)
        created == [id |-> Cardinality(table) + 1, name |-> name]
    IN  IF existing # {}
        THEN [row |-> FirstOf(existing), table |-> table]
        ELSE [row |-> created, table |-> table \cup {created}]

\* A faulty variant of InsertLookup: the insert is an upsert on the name.
UpsertLookup(table, name) == findOrCreate(table, name)

\* prisma.<lookup>.create({ data: { name } }), the second round trip of
\* findOrCreate: a row is inserted whatever the table holds by now (the name
\* is not a unique column).
InsertLookup(table, name) ==
    LET created == [id |-> Cardinality(table) + 1, name |-> name]
    IN  [row |-> created, table |-> table \cup {created}]

\* name ? findOrCreate(name) : Promise.resolve(null)
resolveLookup(table, name) ==
    IF name # <<>>
    THEN findOrCreate(table, name)
    ELSE [row |-> Null, table |-> table]

\* A faulty variant of IdOrNull: the id of the row is dropped.
NoId(row) == Null

\* row?.id ?? null
IdOrNull(row) == IF row = Null THEN Null ELSE Num(row.id)

\* The name of the lookup row a foreign key points at (the include of the
\* queries), or null.
LookupName(table, fk) ==
    IF fk = Null \/ {r \in table : r.id = fk.v} = {}
    THEN Null
    ELSE Str((CHOOSE r \in table : r.id = fk.v).name)

----------------------------------------------------------------------------
(* GET and POST /api/businesses, PATCH and DELETE /api/businesses/[id]. *)

\* The JSON of a company (createdAt and updatedAt are left out of the model).
mapBusiness(db, business) ==
    [id |-> business.id,
     userId |-> business.userId,
     name |-> business.name,
     phone |-> business.phone,
     notes |-> business.notes,
     businessTypeName |-> LookupName(db.businessTypes, business.businessTypeId),
     jurisdictionName |-> LookupName(db.jurisdictions, business.jurisdictionId)]

\* The body is the set of the caller's companies (the order of the array is
\* not modelled).
BusinessGET(db, req) ==
    LET a == requireUser(db, req.auth)
    IN  IF a.outcome = "throw" THEN Reply(a.db, 500, a.message, Null)
        ELSE IF a.outcome = "none" THEN Reply(a.db, 401, "Unauthorized", Null)
        ELSE Reply(a.db, 200, "",
                   {mapBusiness(a.db, b) : b \in {x \in a.db.businesses : x.userId = a.user.id}})

BusinessPOST(db, req) ==
    LET a == requireUser(db, req.auth)
        payload == req.payload
        name == TrimmedOrEmpty(payload.name)
        phone == TrimmedOrEmpty(payload.phone)
        notes == TrimmedOrEmpty(payload.notes)
        businessTypeName == TrimmedOrEmpty(payload.businessTypeName)
        jurisdictionName == TrimmedOrEmpty(payload.jurisdictionName)
        bt == resolveLookup(a.db.businessTypes, businessTypeName)
        ju == resolveLookup(a.db.jurisdictions, jurisdictionName)
        business ==
            [id |-> a.db.nextBusinessId,
             userId |-> a.user.id,
             name |-> name,
             phone |-> IF Len(phone) > 0 THEN Str(phone) ELSE Null,
             notes |-> IF Len(notes) > 0 THEN Str(notes) ELSE Null,
             businessTypeId |-> IdOrNull(bt.row),
             jurisdictionId |-> IdOrNull(ju.row)]
        after == [a.db EXCEPT !.businessTypes = bt.table,
                              !.jurisdictions = ju.table,
                              !.businesses = @ \cup {business},
                              !.nextBusinessId = @ + 1]
    IN  IF a.outcome = "throw" THEN Reply(a.db, 500, a.message, Null)
        ELSE IF a.outcome = "none" THEN Reply(a.db, 401, "Unauthorized", Null)
        ELSE IF req.badJson THEN Reply(a.db, 500, "Unexpected end of JSON input", Null)
        ELSE IF name = <<>> THEN Reply(a.db, 400, "Company name is required", Null)
        ELSE Reply(after, 201, "", mapBusiness(after, business))

\* A mutant of OwnedBusiness: the owner is not part of the query.
BusinessById(db, businessId, userId) ==
    {b \in db.businesses : businessId.t = "num" /\ b.id = businessId.v}

\* prisma.business.findFirst({ where: { id, userId } })
OwnedBusiness(db, businessId, userId) ==
    {b \in db.businesses : businessId.t = "num" /\ b.id = businessId.v /\ b.userId = userId}

BusinessPATCH(db, req) ==
    LET businessId == NumberOf(req.id)
        a == requireUser(db, req.auth)
        payload == req.payload
        name == TrimmedOrEmpty(payload.name)
        phone == TrimmedOrEmpty(payload.phone)
        notes == TrimmedOrEmpty(payload.notes)
        businessTypeName == TrimmedOrEmpty(payload.businessTypeName)
        jurisdictionName == TrimmedOrEmpty(payload.jurisdictionName)
        found == OwnedBusiness(a.db, businessId, a.user.id)
        existing == CHOOSE b \in found : TRUE
        bt == resolveLookup(a.db.businessTypes, businessTypeName)
        ju == resolveLookup(a.db.jurisdictions, jurisdictionName)
        updated ==
            [existing EXCEPT
                !.name = name,
                !.phone = IF Len(phone) > 0 THEN Str(phone) ELSE Null,
                !.notes = IF Len(notes) > 0 THEN Str(notes) ELSE Null,
                !.businessTypeId =
                    IF businessTypeName # <<>>
                    THEN Coalesce(IdOrNull(bt.row), existing.businessTypeId)
                    ELSE Null,
                !.jurisdictionId =
                    IF jurisdictionName # <<>>
                    THEN Coalesce(IdOrNull(ju.row), existing.jurisdictionId)
                    ELSE Null]
        after == [a.db EXCEPT !.businessTypes = bt.table,
                              !.jurisdictions = ju.table,
                              !.businesses = (@ \ found) \cup {updated}]
    IN  IF businessId = NaN \/ businessId = Num(0)
        THEN Reply(db, 400, "A valid business id is required", Null)
        ELSE IF a.outcome = "throw" THEN Reply(a.db, 500, a.message, Null)
        ELSE IF a.outcome = "none" THEN Reply(a.db, 401, "Unauthorized", Null)
        ELSE IF req.badJson THEN Reply(a.db, 500, "Unexpected end of JSON input", Null)
        ELSE IF name = <<>> THEN Reply(a.db, 400, "Company name is required", Null)
        ELSE IF found = {} THEN Reply(a.db, 404, "Company not found", Null)
        ELSE Reply(after, 200, "", mapBusiness(after, updated))

\* The documents of a company go with it: the foreign key
\* BusinessDocument.businessId cascades on delete.
OnDeleteCascade(rows, businessId) == {d \in rows : d.businessId # businessId}

\* A mutant of DeleteBusiness: the row is marked, not deleted.
KeepBusiness(db, businessId) ==
    [db EXCEPT !.businesses =
        {IF b.id = businessId THEN [b EXCEPT !.notes = Str(<<"deleted">>)] ELSE b : b \in @}]

\* A faulty variant of DeleteBusiness: the objects the documents of the
\* company refer to are removed from the bucket with them.
DeleteBusinessAndFiles(db, businessId) ==
    [db EXCEPT !.businesses = {b \in @ : b.id # businessId},
               !.documents = OnDeleteCascade(@, businessId),
               !.objects = {path \in @ :
                               \A d \in db.documents :
                                   d.businessId = businessId => d.sourceFilePath # Str(path)}]

\* prisma.business.delete({ where: { id } })
DeleteBusiness(db, businessId) ==
    [db EXCEPT !.businesses = {b \in @ : b.id # businessId},
               !.documents = OnDeleteCascade(@, businessId)]

BusinessDELETE(db, req) ==
    LET businessId == NumberOf(req.id)
        a == requireUser(db, req.auth)
        found == OwnedBusiness(a.db, businessId, a.user.id)
    IN  IF businessId = NaN \/ businessId = Num(0)
        THEN Reply(db, 400, "A valid business id is required", Null)
        ELSE IF a.outcome = "throw" THEN Reply(a.db, 500, a.message, Null)
        ELSE IF a.outcome = "none" THEN Reply(a.db, 401, "Unauthorized", Null)
        ELSE IF found = {} THEN Reply(a.db, 404, "Company not found", Null)
        ELSE Reply(DeleteBusiness(a.db, businessId.v), 200, "", [success |-> TRUE])

----------------------------------------------------------------------------
(* The document routes' helpers. *)

\* parseId of the document routes and the file relay.
parseId(source) ==
    LET value == NumberOf(source)
    IN  IF ~IsFinite(value) \/ value.v <= 0 THEN Null ELSE value

\* The enums of the persistence schema.
DocumentCategory ==
    {<<"PERMIT">>, <<"LICENSE">>, <<"INSPECTION">>, <<"INSURANCE">>,
     <<"REGISTRATION">>, <<"CERTIFICATION">>, <<"AGREEMENT">>, <<"OTHER">>}
DocumentStatus ==
    {<<"ACTIVE">>, <<"PENDING", "_", "ACTIVATION">>, <<"PENDING", "_", "RENEWAL">>,
     <<"EXPIRED">>, <<"INACTIVE">>}

\* s.replace(/[\s-]+/g, "_"): every run of white space and hyphens becomes
\* one underscore.
RECURSIVE ReplaceSeparators(_)
ReplaceSeparators(s) ==
    IF s = <<>> THEN <<>>
    ELSE IF Head(s) \in Whitespace \cup {"-"}
    THEN IF Tail(s) # <<>> /\ Head(Tail(s)) \in Whitespace \cup {"-"}
         THEN ReplaceSeparators(Tail(s))
         ELSE <<"_">> \o ReplaceSeparators(Tail(s))
    ELSE <<Head(s)>> \o ReplaceSeparators(Tail(s))

normalizeCategory(value) ==
    LET normalized == ToUpperCase(Trim(value.v))
    IN  IF IsStr(value) /\ normalized \in DocumentCategory
        THEN normalized
        ELSE <<"PERMIT">>

normalizeStatus(value) ==
    LET normalized == ReplaceSeparators(ToUpperCase(Trim(value.v)))
    IN  IF IsStr(value) /\ normalized \in DocumentStatus
        THEN normalized
        ELSE <<"ACTIVE">>

\* new Date(s) of the date strings of the model: the day as yyyymmdd, or NaN
\* for an invalid date.
DateOf(s) ==
    CASE s = <<"2025-01-01">> -> Num(20250101)
      [] s = <<"Jan 1, 2025">> -> Num(20250101)
      [] s = <<"2025-12-31">> -> Num(20251231)
      [] s = <<"2025-06-01">> -> Num(20250601)
      [] s = <<"2026-01-01">> -> Num(20260101)
      [] OTHER -> NaN

parseDate(value) ==
    IF ~IsStr(value) THEN Null
    ELSE IF Trim(value.v) = <<>> THEN Null
    ELSE IF DateOf(Trim(value.v)) = NaN THEN Null
    ELSE DateOf(Trim(value.v))

\* typeof v === "string" && v.trim().length > 0 ? v.trim() : otherwise
TrimmedOr(v, otherwise) ==
    IF IsStr(v) /\ Len(Trim(v.v)) > 0 THEN Trim(v.v) ELSE otherwise

\* A mutant of InUserFolder: the bucket is checked, the path is not.
InDesignatedBucket(bucket, path, userId) == bucket = PERMIT_FILES_BUCKET

\* bucket === PERMIT_FILES_BUCKET && path.startsWith(`${userId}/`)
InUserFolder(bucket, path, userId) ==
    bucket = PERMIT_FILES_BUCKET /\ StartsWith(path, userId \o <<"/">>)

\* resolveSourceFileDecision of the document create and update routes (the
\* two copies are the same text): the action, or "throw" with the message of
\* the SourceFilePayloadError.
resolveSourceFileDecision(payload, userId) ==
    LET provided ==
            \/ payload.sourceFileBucket # Undef
            \/ payload.sourceFilePath # Undef
            \/ payload.sourceFileContentType # Undef
            \/ payload.sourceFileName # Undef
            \/ payload.sourceFileSize # Undef
        bucket == payload.sourceFileBucket
        path == payload.sourceFilePath
        sizeValue == payload.sourceFileSize
        numericSize ==
            IF IsNum(sizeValue) THEN sizeValue
            ELSE IF IsStr(sizeValue) /\ Len(Trim(sizeValue.v)) > 0
            THEN ParseInt(sizeValue.v)
            ELSE NaN
    IN  IF ~provided THEN [action |-> "ignore"]
        ELSE IF bucket = Null \/ bucket = Str(<<>>) \/ path = Null \/ path = Str(<<>>)
        THEN [action |-> "clear"]
        ELSE IF ~IsStr(bucket) \/ ~IsStr(path)
        THEN [action |-> "throw", message |-> "Invalid source file metadata"]
        ELSE IF ~InUserFolder(bucket.v, path.v, userId)
        THEN [action |-> "throw", message |-> "Invalid source file reference"]
        ELSE IF ~IsFinite(numericSize)
        THEN [action |-> "throw", message |-> "Invalid source file size"]
        ELSE [action |-> "set",
              value |-> [bucket |-> bucket.v,
                         path |-> path.v,
                         contentType |-> TrimmedOr(payload.sourceFileContentType,
                                                   <<"application/octet-stream">>),
                         name |-> TrimmedOr(payload.sourceFileName, <<"permit-file">>),
                         size |-> numericSize.v]]

\* The JSON of a document (createdAt and updatedAt are left out of the model).
mapDocument(db, document) ==
    [id |-> document.id,
     businessId |-> document.businessId,
     title |-> document.title,
     permitNumber |-> document.permitNumber,
     documentCategory |-> document.documentCategory,
     status |-> document.status,
     startDate |-> document.startDate,
     endDate |-> document.endDate,
     autoRenew |-> document.autoRenew,
     issuingAuthorityName |-> LookupName(db.issuingAuthorities, document.issuingAuthorityId),
     jurisdictionName |-> LookupName(db.jurisdictions, document.jurisdictionId),
     rawExtractionJson |-> document.rawExtractionJson,
     sourceFileBucket |-> document.sourceFileBucket,
     sourceFilePath |-> document.sourceFilePath,
     sourceFileContentType |-> document.sourceFileContentType,
     sourceFileName |-> document.sourceFileName,
     sourceFileSize |-> document.sourceFileSize]

----------------------------------------------------------------------------
(* GET and POST /api/businesses/[id]/documents,                            *)
(* PATCH /api/businesses/[id]/documents/[documentId].                      *)

DocumentsGET(db, req) ==
    LET businessId == parseId(req.id)
        a == requireUser(db, req.auth)
        found == OwnedBusiness(a.db, businessId, a.user.id)
        business == CHOOSE b \in found : TRUE
    IN  IF businessId = Null
        THEN Reply(db, 400, "A valid company id is required", Null)
        ELSE IF a.outcome = "throw" THEN Reply(a.db, 500, a.message, Null)
        ELSE IF a.outcome = "none" THEN Reply(a.db, 401, "Unauthorized", Null)
        ELSE IF found = {} THEN Reply(a.db, 404, "Company not found", Null)
        ELSE Reply(a.db, 200, "",
                   {mapDocument(a.db, d) :
                        d \in {x \in a.db.documents : x.businessId = business.id}})

\* The columns a payload gives a document besides its file reference, its
\* lookup links and its raw extraction.
DocumentFields(payload, title) ==
    [title |-> title,
     permitNumber |-> IF IsStr(payload.permitNumber) /\ Len(Trim(payload.permitNumber.v)) > 0
                      THEN Str(Trim(payload.permitNumber.v))
                      ELSE Null,
     documentCategory |-> normalizeCategory(payload.documentCategory),
     status |-> normalizeStatus(payload.status),
     startDate |-> parseDate(payload.startDate),
     endDate |-> parseDate(payload.endDate),
     autoRenew |-> payload.autoRenew = Bool(TRUE)]

NoSourceFile ==
    [sourceFileBucket |-> Null, sourceFilePath |-> Null,
     sourceFileContentType |-> Null, sourceFileName |-> Null,
     sourceFileSize |-> Null]

\* A mutant of SourceFileColumns: a payload without file fields writes
\* nulls.
SourceFileColumnsAlwaysWritten(decision, kept) ==
    IF decision.action = "set"
    THEN [sourceFileBucket |-> Str(decision.value.bucket),
          sourceFilePath |-> Str(decision.value.path),
          sourceFileContentType |-> Str(decision.value.contentType),
          sourceFileName |-> Str(decision.value.name),
          sourceFileSize |-> Num(decision.value.size)]
    ELSE NoSourceFile

\* The five file columns a decision gives a document; `kept` are the columns
\* of the row as it is (null for a new row).
SourceFileColumns(decision, kept) ==
    IF decision.action = "set"
    THEN [sourceFileBucket |-> Str(decision.value.bucket),
          sourceFilePath |-> Str(decision.value.path),
          sourceFileContentType |-> Str(decision.value.contentType),
          sourceFileName |-> Str(decision.value.name),
          sourceFileSize |-> Num(decision.value.size)]
    ELSE IF decision.action = "clear"
    THEN [sourceFileBucket |-> Null, sourceFilePath |-> Null,
          sourceFileContentType |-> Null, sourceFileName |-> Null,
          sourceFileSize |-> Null]
    ELSE kept

\* The row prisma.businessDocument.create writes.
CreatedDocument(id, businessId, fields, rawExtraction, jurisdiction, issuingAuthority, file) ==
    [id |-> id,
     businessId |-> businessId,
     title |-> fields.title,
     permitNumber |-> fields.permitNumber,
     documentCategory |-> fields.documentCategory,
     status |-> fields.status,
     startDate |-> fields.startDate,
     endDate |-> fields.endDate,
     autoRenew |-> fields.autoRenew,
     rawExtractionJson |-> Coalesce(rawExtraction, Null),
     jurisdictionId |-> IdOrNull(jurisdiction),
     issuingAuthorityId |-> IdOrNull(issuingAuthority),
     permitTypeId |-> Null,
     sourceFileBucket |-> file.sourceFileBucket,
     sourceFilePath |-> file.sourceFilePath,
     sourceFileContentType |-> file.sourceFileContentType,
     sourceFileName |-> file.sourceFileName,
     sourceFileSize |-> file.sourceFileSize]

\* The create of the route: the lookups found or created, then the row.
CreateDocument(db, business, payload, title, decision) ==
    LET ju == resolveLookup(db.jurisdictions, TrimmedOrEmpty(payload.jurisdictionName))
        ia == resolveLookup(db.issuingAuthorities,
                            TrimmedOrEmpty(payload.issuingAuthorityName))
    IN  [db |-> [db EXCEPT !.jurisdictions = ju.table,
                           !.issuingAuthorities = ia.table,
                           !.nextDocumentId = @ + 1],
         document |-> CreatedDocument(db.nextDocumentId, business.id,
                                      DocumentFields(payload, title),
                                      payload.rawExtraction, ju.row, ia.row,
                                      SourceFileColumns(decision, NoSourceFile))]

\* The response to a created or updated document.
Saved(saved, status) ==
    LET after == [saved.db EXCEPT !.documents =
                     {d \in @ : d.id # saved.document.id} \cup {saved.document}]
    IN  Reply(after, status, "", mapDocument(after, saved.document))

\* The route once the caller and the company are known.
DocumentsPOSTOwned(db, business, payload, title, decision) ==
    IF decision.action = "throw" THEN Reply(db, 400, decision.message, Null)
    ELSE Saved(CreateDocument(db, business, payload, title, decision), 201)

DocumentsPOSTAs(a, businessId, payload, title) ==
    IF a.outcome = "throw" THEN Reply(a.db, 500, a.message, Null)
    ELSE IF a.outcome = "none" THEN Reply(a.db, 401, "Unauthorized", Null)
    ELSE IF OwnedBusiness(a.db, businessId, a.user.id) = {}
    THEN Reply(a.db, 404, "Company not found", Null)
    ELSE DocumentsPOSTOwned(a.db,
                            CHOOSE b \in OwnedBusiness(a.db, businessId, a.user.id) : TRUE,
                            payload, title,
                            resolveSourceFileDecision(payload, a.user.id))

DocumentsPOST(db, req) ==
    IF parseId(req.id) = Null
    THEN Reply(db, 400, "A valid company id is required", Null)
    ELSE IF req.badJson THEN Reply(db, 400, "Invalid JSON payload", Null)
    ELSE IF TrimmedOrEmpty(req.payload.title) = <<>>
    THEN Reply(db, 400, "Permit title is required", Null)
    ELSE DocumentsPOSTAs(requireUser(db, req.auth), parseId(req.id), req.payload,
                         TrimmedOrEmpty(req.payload.title))

\* The file columns of a stored document.
FileColumnsOf(document) ==
    [sourceFileBucket |-> document.sourceFileBucket,
     sourceFilePath |-> document.sourceFilePath,
     sourceFileContentType |-> document.sourceFileContentType,
     sourceFileName |-> document.sourceFileName,
     sourceFileSize |-> document.sourceFileSize]

\* A faulty variant of UpdatedDocument: a partial update, in which a field the
\* payload omits keeps the value of the row.
MergedDocument(existing, fields, payload, jurisdiction, issuingAuthority, file) ==
    [existing EXCEPT
        !.title = fields.title,
        !.permitNumber = IF payload.permitNumber = Undef THEN @ ELSE fields.permitNumber,
        !.documentCategory =
            IF payload.documentCategory = Undef THEN @ ELSE fields.documentCategory,
        !.status = IF payload.status = Undef THEN @ ELSE fields.status,
        !.startDate = IF payload.startDate = Undef THEN @ ELSE fields.startDate,
        !.endDate = IF payload.endDate = Undef THEN @ ELSE fields.endDate,
        !.autoRenew = IF payload.autoRenew = Undef THEN @ ELSE fields.autoRenew,
        !.rawExtractionJson =
            IF payload.rawExtraction # Undef THEN payload.rawExtraction ELSE @,
        !.jurisdictionId =
            IF payload.jurisdictionName = Undef THEN @ ELSE IdOrNull(jurisdiction),
        !.issuingAuthorityId =
            IF payload.issuingAuthorityName = Undef THEN @ ELSE IdOrNull(issuingAuthority),
        !.sourceFileBucket = file.sourceFileBucket,
        !.sourceFilePath = file.sourceFilePath,
        !.sourceFileContentType = file.sourceFileContentType,
        !.sourceFileName = file.sourceFileName,
        !.sourceFileSize = file.sourceFileSize]

\* A faulty variant of UpdatedDocument: the update also writes businessId,
\* moving the document to the other company.
MovedDocument(existing, fields, payload, jurisdiction, issuingAuthority, file) ==
    [MergedDocument(existing, fields, payload, jurisdiction, issuingAuthority, file)
        EXCEPT !.businessId = 3 - @]

\* The row prisma.businessDocument.update leaves.
UpdatedDocument(existing, fields, payload, jurisdiction, issuingAuthority, file) ==
    [existing EXCEPT
        !.title = fields.title,
        !.permitNumber = fields.permitNumber,
        !.documentCategory = fields.documentCategory,
        !.status = fields.status,
        !.startDate = fields.startDate,
        !.endDate = fields.endDate,
        !.autoRenew = fields.autoRenew,
        !.rawExtractionJson =
            IF payload.rawExtraction # Undef THEN payload.rawExtraction ELSE @,
        !.jurisdictionId = IdOrNull(jurisdiction),
        !.issuingAuthorityId = IdOrNull(issuingAuthority),
        !.sourceFileBucket = file.sourceFileBucket,
        !.sourceFilePath = file.sourceFilePath,
        !.sourceFileContentType = file.sourceFileContentType,
        !.sourceFileName = file.sourceFileName,
        !.sourceFileSize = file.sourceFileSize]

\* The update of the route: the lookups found or created, then the row.
UpdateDocument(db, existing, payload, title, decision) ==
    LET ju == resolveLookup(db.jurisdictions, TrimmedOrEmpty(payload.jurisdictionName))
        ia == resolveLookup(db.issuingAuthorities,
                            TrimmedOrEmpty(payload.issuingAuthorityName))
    IN  [db |-> [db EXCEPT !.jurisdictions = ju.table,
                           !.issuingAuthorities = ia.table],
         document |-> UpdatedDocument(existing, DocumentFields(payload, title), payload,
                                      ju.row, ia.row,
                                      SourceFileColumns(decision, FileColumnsOf(existing)))]

\* The documents of a company with the id asked for.
DocumentOf(db, documentId, business) ==
    {d \in db.documents : d.id = documentId.v /\ d.businessId = business.id}

\* The route once the caller and the company are known.
DocumentPATCHOwned(db, found, payload, title, decision) ==
    IF found = {} THEN Reply(db, 404, "Permit not found", Null)
    ELSE IF decision.action = "throw" THEN Reply(db, 400, decision.message, Null)
    ELSE Saved(UpdateDocument(db, CHOOSE d \in found : TRUE, payload, title, decision), 200)

DocumentPATCHAs(a, businessId, documentId, payload, title) ==
    IF a.outcome = "throw" THEN Reply(a.db, 500, a.message, Null)
    ELSE IF a.outcome = "none" THEN Reply(a.db, 401, "Unauthorized", Null)
    ELSE IF OwnedBusiness(a.db, businessId, a.user.id) = {}
    THEN Reply(a.db, 404, "Company not found", Null)
    ELSE DocumentPATCHOwned(
            a.db,
            DocumentOf(a.db, documentId,
                       CHOOSE b \in OwnedBusiness(a.db, businessId, a.user.id) : TRUE),
            payload, title,
            resolveSourceFileDecision(payload, a.user.id))

DocumentPATCH(db, req) ==
    IF parseId(req.id) = Null \/ parseId(req.documentId) = Null
    THEN Reply(db, 400, "Valid ids are required", Null)
    ELSE IF req.badJson THEN Reply(db, 400, "Invalid JSON payload", Null)
    ELSE IF TrimmedOrEmpty(req.payload.title) = <<>>
    THEN Reply(db, 400, "Permit title is required", Null)
    ELSE DocumentPATCHAs(requireUser(db, req.auth), parseId(req.id),
                         parseId(req.documentId), req.payload,
                         TrimmedOrEmpty(req.payload.title))

----------------------------------------------------------------------------
(* GET /api/businesses/[id]/documents/[documentId]/file: the file relay.   *)

\* A faulty variant of FileGET: the document is looked up by its id alone and
\* its file is streamed to whoever is signed in.
FileGETOfAnyone(db, req) ==
    IF req.auth.kind # "user" \/ parseId(req.documentId) = Null
    THEN Traced(Reply(db, 401, "Unauthorized", Null), <<>>)
    ELSE IF {d \in db.documents : d.id = parseId(req.documentId).v} = {}
    THEN Traced(Reply(db, 404, "Permit not found", Null), <<>>)
    ELSE [db |-> db,
          resp |-> [kind |-> "bytes", status |-> 200, error |-> "",
                    calls |-> <<"download">>,
                    body |-> [documentId |-> parseId(req.documentId).v]]]

\* storage.from(bucket).download(path): the object is there and the storage
\* service answers.
Download(db, req, path) == req.storageUp /\ path \in db.objects

FileGET(db, req) ==
    LET businessId == parseId(req.id)
        documentId == parseId(req.documentId)
        e == ensureProfile(db.users, req.auth.user)
        db1 == [db EXCEPT !.users = e.users]
        found ==
            {d \in db1.documents :
                /\ d.id = documentId.v
                /\ d.businessId = businessId.v
                /\ \E b \in db1.businesses :
                      b.id = d.businessId /\ b.userId = req.auth.user.id}
        document == CHOOSE d \in found : TRUE
    IN  IF businessId = Null \/ documentId = Null
        THEN Traced(Reply(db, 400, "Valid ids are required", Null), <<>>)
        ELSE IF req.auth.kind = "error"
        THEN Traced(Reply(db, 500, AuthErrorMessage, Null), <<>>)
        ELSE IF req.auth.kind = "none"
        THEN Traced(Reply(db, 401, "Unauthorized", Null), <<>>)
        ELSE IF ~e.ok THEN Traced(Unhandled(db, UniqueViolationMessage), <<>>)
        ELSE IF found = {} THEN Traced(Reply(db1, 404, "Permit not found", Null), <<>>)
        ELSE IF document.sourceFileBucket \in {Null, Str(<<>>)}
                \/ document.sourceFilePath \in {Null, Str(<<>>)}
        THEN Traced(Reply(db1, 404, "No stored file for this permit", Null), <<>>)
        ELSE IF document.sourceFileBucket.v # PERMIT_FILES_BUCKET
        THEN Traced(Reply(db1, 400, "Invalid file reference", Null), <<>>)
        ELSE IF ~Download(db1, req, document.sourceFilePath.v)
        THEN Traced(Reply(db1, 502, "Unable to load file", Null), <<"download">>)
        ELSE [db |-> db1,
              resp |-> [kind |-> "bytes", status |-> 200, error |-> "",
                        calls |-> <<"download">>,
                        body |-> [path |-> document.sourceFilePath.v,
                                  contentType |-> Coalesce(document.sourceFileContentType,
                                                           Str(<<"application/octet-stream">>)),
                                  filename |-> Coalesce(document.sourceFileName,
                                                        Str(<<"permit-file">>)),
                                  documentId |-> document.id]]]

----------------------------------------------------------------------------
(* POST /api/submit: save a company and a document in one call.            *)

\* value?.trim() of a field the payload type declares string | null |
\* undefined: the trimmed string, or <<>> for what is falsy.
OptTrim(v) == IF IsStr(v) THEN Trim(v.v) ELSE <<>>

deriveNameFromEmail(email) ==
    LET trimmed == Trim(LocalPart(email))
    IN  IF trimmed = <<>> THEN FALLBACK_NAME ELSE Capitalize(trimmed)

\* value?.trim() of a value that is neither a string nor null nor undefined:
\* trim is not a function of it, and the call throws this.
TypeError == <<"TypeError">>
HasNoTrim(value) == value.t \notin {"undef", "null", "str"}

\* The copies of normalizeCategory and normalizeStatus in the submit route:
\* the enumerated value, or the TypeError thrown.
normalizeCategorySubmit(value) ==
    LET normalized == ToUpperCase(OptTrim(value))
    IN  IF HasNoTrim(value) THEN TypeError
        ELSE IF normalized # <<>> /\ normalized \in DocumentCategory
        THEN normalized
        ELSE <<"PERMIT">>

normalizeStatusSubmit(value) ==
    LET normalized == ReplaceSeparators(ToUpperCase(OptTrim(value)))
    IN  IF HasNoTrim(value) THEN TypeError
        ELSE IF normalized # <<>> /\ normalized \in DocumentStatus
        THEN normalized
        ELSE <<"ACTIVE">>

parseInputDate(value) ==
    IF ~IsStr(value) \/ value.v = <<>> THEN Null
    ELSE IF Trim(value.v) = <<>> THEN Null
    ELSE IF DateOf(Trim(value.v)) = NaN THEN Null
    ELSE DateOf(Trim(value.v))

\* A mutant of SubmittedInUserFolder: any folder of the bucket will do.
SubmittedInAnyFolder(bucket, path, userId) == bucket = PERMIT_FILES_BUCKET

\* The check of resolveSourceFileMetadata on the trimmed bucket and path.
SubmittedInUserFolder(bucket, path, userId) ==
    bucket = PERMIT_FILES_BUCKET /\ StartsWith(path, userId \o <<"/">>)

\* resolveSourceFileMetadata of the submit route: "none" (null), "set", or
\* "throw" with the message of the SourceFilePayloadError.
resolveSourceFileMetadata(payload, userId) ==
    LET bucket == OptTrim(payload.sourceFileBucket)
        path == OptTrim(payload.sourceFilePath)
        sizeValue == payload.sourceFileSize
        numericSize ==
            IF IsNum(sizeValue) THEN sizeValue
            ELSE IF IsStr(sizeValue) /\ Len(Trim(sizeValue.v)) > 0
            THEN ParseInt(sizeValue.v)
            ELSE Num(0)
    IN  IF bucket = <<>> \/ path = <<>> THEN [action |-> "none"]
        ELSE IF ~SubmittedInUserFolder(bucket, path, userId)
        THEN [action |-> "throw", message |-> "Invalid source file reference"]
        ELSE IF ~IsFinite(numericSize) \/ numericSize.v < 0
        THEN [action |-> "throw", message |-> "Invalid source file size"]
        ELSE [action |-> "set",
              value |-> [bucket |-> bucket,
                         path |-> path,
                         contentType |-> IF OptTrim(payload.sourceFileContentType) # <<>>
                                         THEN OptTrim(payload.sourceFileContentType)
                                         ELSE <<"application/octet-stream">>,
                         name |-> IF OptTrim(payload.sourceFileName) # <<>>
                                  THEN OptTrim(payload.sourceFileName)
                                  ELSE <<"Permit file">>,
                         size |-> numericSize.v]]

\* randomUUID() for a new user row: the next unused id of the pool.
UuidChunk(n) ==
    CASE n = 1 -> "r1" [] n = 2 -> "r2" [] n = 3 -> "r3" [] OTHER -> "r4"

NewUuid(db) == <<UuidChunk(db.uuidsUsed + 1)>>

\* The user the submit route saves under: the session's user through the
\* identity bridge, else the row with the payload's userEmail, created when
\* there is none.  [outcome, db, userId].
resolveSubmitUser(db, req) ==
    LET userEmail == ToLowerCase(OptTrim(req.payload.userEmail))
        byEmail == {r \in db.users : r.email = userEmail}
        created == [id |-> NewUuid(db), email |-> userEmail,
                    name |-> deriveNameFromEmail(userEmail), phone |-> Null]
        e == ensureProfile(db.users, req.auth.user)
    IN  IF req.auth.kind = "error"
        THEN [outcome |-> "throw", db |-> db, userId |-> <<>>]
        ELSE IF req.auth.kind = "user"
        THEN IF e.ok
             THEN [outcome |-> "user", db |-> [db EXCEPT !.users = e.users],
                   userId |-> req.auth.user.id]
             ELSE [outcome |-> "throw", db |-> db, userId |-> <<>>]
        ELSE IF userEmail = <<>>
        THEN [outcome |-> "none", db |-> db, userId |-> <<>>]
        ELSE IF byEmail # {}
        THEN [outcome |-> "user", db |-> db, userId |-> (CHOOSE r \in byEmail : TRUE).id]
        ELSE [outcome |-> "user",
              db |-> [db EXCEPT !.users = @ \cup {created}, !.uuidsUsed = @ + 1],
              userId |-> created.id]

\* handleSave: [db, resp], or the SourceFilePayloadError it throws.
handleSave(db, payload, businessName, documentTitle, documentCategory, documentStatus, autoRenew, rawExtraction, userId) ==
    LET meta == resolveSourceFileMetadata(payload, userId)
        isSet == meta.action = "set"
        bt == resolveLookup(db.businessTypes, OptTrim(payload.businessTypeName))
        ju == resolveLookup(db.jurisdictions, OptTrim(payload.jurisdictionName))
        pt == resolveLookup(db.permitTypes, OptTrim(payload.permitTypeName))
        ia == resolveLookup(db.issuingAuthorities, OptTrim(payload.issuingAuthorityName))
        found == {b \in db.businesses : b.name = businessName /\ b.userId = userId}
        existing == FirstOf(found)
        business ==
            IF found = {}
            THEN [id |-> db.nextBusinessId, userId |-> userId, name |-> businessName,
                  phone |-> Null, notes |-> Null,
                  businessTypeId |-> IdOrNull(bt.row),
                  jurisdictionId |-> IdOrNull(ju.row)]
            ELSE [existing EXCEPT
                    !.businessTypeId =
                        IF @ = Null /\ bt.row # Null THEN Num(bt.row.id) ELSE @,
                    !.jurisdictionId =
                        IF @ = Null /\ ju.row # Null THEN Num(ju.row.id) ELSE @]
        document ==
            [id |-> db.nextDocumentId,
             businessId |-> business.id,
             title |-> documentTitle,
             permitNumber |-> IF OptTrim(payload.permitNumber) # <<>>
                              THEN Str(OptTrim(payload.permitNumber))
                              ELSE Null,
             documentCategory |-> documentCategory,
             status |-> documentStatus,
             startDate |-> parseInputDate(payload.startDate),
             endDate |-> parseInputDate(payload.endDate),
             autoRenew |-> autoRenew,
             rawExtractionJson |-> Coalesce(rawExtraction, Null),
             jurisdictionId |-> IdOrNull(ju.row),
             issuingAuthorityId |-> IdOrNull(ia.row),
             permitTypeId |-> IdOrNull(pt.row),
             sourceFileBucket |-> IF isSet THEN Str(meta.value.bucket) ELSE Null,
             sourceFilePath |-> IF isSet THEN Str(meta.value.path) ELSE Null,
             sourceFileContentType |-> IF isSet THEN Str(meta.value.contentType) ELSE Null,
             sourceFileName |-> IF isSet THEN Str(meta.value.name) ELSE Null,
             sourceFileSize |-> IF isSet THEN Num(meta.value.size) ELSE Null]
        after ==
            [db EXCEPT !.businessTypes = bt.table,
                       !.jurisdictions = ju.table,
                       !.permitTypes = pt.table,
                       !.issuingAuthorities = ia.table,
                       !.businesses = IF found = {}
                                      THEN @ \cup {business}
                                      ELSE (@ \ {existing}) \cup {business},
                       !.nextBusinessId = IF found = {} THEN @ + 1 ELSE @,
                       !.documents = @ \cup {document},
                       !.nextDocumentId = @ + 1]
    IN  IF meta.action = "throw"
        THEN Reply(db, 400, meta.message, Null)
        ELSE Reply(after, 201, "", [document |-> document, business |-> business])

SubmitPOST(db, req) ==
    LET payload == req.payload
        businessName == OptTrim(payload.businessName)
        documentTitle == IF OptTrim(payload.title) # <<>>
                         THEN OptTrim(payload.title)
                         ELSE <<"Untitled document">>
        u == resolveSubmitUser(db, req)
    IN  IF req.badJson THEN Reply(db, 400, "Invalid JSON payload", Null)
        ELSE IF businessName = <<>> THEN Reply(db, 400, "Business name is required", Null)
        ELSE IF TypeError \in {normalizeCategorySubmit(payload.documentCategory),
                               normalizeStatusSubmit(payload.status)}
        THEN Unhandled(db, "value?.trim is not a function")
        ELSE IF u.outcome = "throw" THEN Reply(u.db, 500, "Failed to save document", Null)
        ELSE IF u.outcome = "none" THEN Reply(u.db, 401, "Unauthorized", Null)
        ELSE handleSave(u.db, payload, businessName, documentTitle,
                        normalizeCategorySubmit(payload.documentCategory),
                        normalizeStatusSubmit(payload.status),
                        payload.autoRenew = Bool(TRUE),
                        payload.rawExtraction, u.userId)

----------------------------------------------------------------------------
(* POST /api/permits: the extraction gateway.                              *)

NonAscii == {"~e"}

\* input.replace(/[^\x20-\x7E]+/g, "")
sanitizeAscii(s) == SelectSeq(s, LAMBDA c : c \notin NonAscii)

\* parsed.toISOString().slice(0, 10)
IsoDay(d) ==
    CASE d = Num(20250101) -> <<"2025-01-01">>
      [] d = Num(20251231) -> <<"2025-12-31">>
      [] d = Num(20250601) -> <<"2025-06-01">>
      [] d = Num(20260101) -> <<"2026-01-01">>

normalizeDate(value) ==
    IF ~IsStr(value) THEN <<>>
    ELSE IF Trim(value.v) = <<>> THEN <<>>
    ELSE IF DateOf(Trim(value.v)) = NaN THEN <<>>
    ELSE IsoDay(DateOf(Trim(value.v)))

normalizeBoolean(value) ==
    IF value.t = "bool" THEN value.v
    ELSE IF IsStr(value)
    THEN ToLowerCase(Trim(value.v)) \in {<<"true">>, <<"yes">>}
    ELSE FALSE

\* The copies of normalizeCategory and normalizeStatus in the gateway.
normalizeCategoryExtract(value) ==
    LET normalized == ToUpperCase(Trim(value.v))
    IN  IF IsStr(value) /\ normalized \in DocumentCategory
        THEN normalized
        ELSE <<"PERMIT">>

normalizeStatusExtract(value) ==
    LET normalized == ReplaceSeparators(ToUpperCase(Trim(value.v)))
    IN  IF IsStr(value) /\ normalized \in DocumentStatus
        THEN normalized
        ELSE <<"ACTIVE">>

\* The first of the candidates that is a string, else "".
FirstString(candidates) ==
    LET strings == SelectSeq(candidates, IsStr)
    IN  IF strings = <<>> THEN <<>> ELSE strings[1].v

\* a ?? b ?? c ...
RECURSIVE CoalesceAll(_)
CoalesceAll(candidates) ==
    IF Len(candidates) = 1 THEN candidates[1]
    ELSE Coalesce(candidates[1], CoalesceAll(Tail(candidates)))

inferExtension(fileName) ==
    IF fileName = <<>> THEN <<>>
    ELSE IF Cardinality({i \in 1..Len(fileName) : fileName[i] = "."}) < 1 THEN <<>>
    ELSE IF fileName[Len(fileName)] = "." THEN <<>>
    ELSE <<".", LowerChunk(fileName[Len(fileName)])>>

\* randomUUID() of an object path: the next unused name of the pool.
ObjectChunk(n) ==
    CASE n = 0 -> "f1" [] n = 1 -> "f2" [] n = 2 -> "f3" [] OTHER -> "f4"

UPLOAD_DAY == <<"2025-06-01">>

\* A faulty variant of resolveOrUploadSourceFile: the reference of the form
\* is ignored and the file is uploaded again.
uploadSourceFile(db, form, userId, file, uploadOk) ==
    IF ~uploadOk
    THEN [outcome |-> "throw", db |-> db, status |-> 500,
          message |-> "storage unavailable", calls |-> <<"upload">>]
    ELSE [outcome |-> "uploaded", calls |-> <<"upload">>,
          db |-> [db EXCEPT !.objects = @ \cup {userId \o <<"/", "again">>}],
          meta |-> [bucket |-> PERMIT_FILES_BUCKET, path |-> userId \o <<"/", "again">>,
                    contentType |-> file.type, name |-> file.name, size |-> file.size]]

\* A faulty variant of resolveOrUploadSourceFile: a reference of the form is
\* returned as it came, its bucket and path unchecked.
reuseSourceFile(db, form, userId, file, uploadOk) ==
    IF IsStr(form.sourceFileBucket) /\ IsStr(form.sourceFilePath)
    THEN [outcome |-> "reused", db |-> db, calls |-> <<>>,
          meta |-> [bucket |-> form.sourceFileBucket.v, path |-> form.sourceFilePath.v,
                    contentType |-> file.type, name |-> file.name, size |-> file.size]]
    ELSE uploadSourceFile(db, form, userId, file, uploadOk)

\* resolveOrUploadSourceFile: [outcome, db, meta, status, message, calls], the
\* outcome being "reused", "uploaded" or "throw" (a SourceFileError), and
\* calls the requests it has sent to the storage service.
resolveOrUploadSourceFile(db, form, userId, file, uploadOk) ==
    LET existingBucket == form.sourceFileBucket
        existingPath == form.sourceFilePath
        existingSize == form.sourceFileSize
        normalizedSize == IF IsStr(existingSize) THEN ParseInt(existingSize.v) ELSE Undef
        fileType == IF file.type # <<>> THEN file.type ELSE <<"application/octet-stream">>
        fileName == IF file.name # <<>> THEN file.name ELSE <<"permit-file">>
        objectPath ==
            userId \o <<"/">> \o UPLOAD_DAY \o <<"/", ObjectChunk(Cardinality(db.objects))>>
                \o inferExtension(file.name)
    IN  IF IsStr(existingBucket) /\ IsStr(existingPath)
        THEN IF existingBucket.v # PERMIT_FILES_BUCKET
                \/ ~StartsWith(existingPath.v, userId \o <<"/">>)
             THEN [outcome |-> "throw", db |-> db, status |-> 400,
                   message |-> "Invalid source file reference", calls |-> <<>>]
             ELSE [outcome |-> "reused", db |-> db, calls |-> <<>>,
                   meta |-> [bucket |-> existingBucket.v,
                             path |-> existingPath.v,
                             contentType |->
                                 IF IsStr(form.sourceFileContentType)
                                    /\ Len(Trim(form.sourceFileContentType.v)) > 0
                                 THEN form.sourceFileContentType.v
                                 ELSE fileType,
                             name |->
                                 IF IsStr(form.sourceFileName)
                                    /\ Len(Trim(form.sourceFileName.v)) > 0
                                 THEN form.sourceFileName.v
                                 ELSE fileName,
                             size |-> IF IsFinite(normalizedSize)
                                      THEN normalizedSize.v
                                      ELSE file.size]]
        ELSE IF ~uploadOk
        THEN [outcome |-> "throw", db |-> db, status |-> 500,
              message |-> "storage unavailable", calls |-> <<"upload">>]
        ELSE [outcome |-> "uploaded", calls |-> <<"upload">>,
              db |-> [db EXCEPT !.objects = @ \cup {objectPath}],
              meta |-> [bucket |-> PERMIT_FILES_BUCKET,
                        path |-> objectPath,
                        contentType |-> fileType,
                        name |-> fileName,
                        size |-> file.size]]

\* A faulty variant of gatewayUser: the session goes through the identity
\* bridge, as in the other routes.
bridgedUser(db, auth) == requireUser(db, auth)

\* supabase.auth.getUser() of the gateway: the user of the session, or none
\* (no session, or the provider's error); the local user table is not read.
gatewayUser(db, auth) ==
    IF auth.kind = "user"
    THEN [outcome |-> "user", db |-> db, user |-> auth.user, message |-> ""]
    ELSE [outcome |-> "none", db |-> db, user |-> Null, message |-> ""]

\* The fields the gateway returns for the object the model answered with.
ExtractedFields(parsed) ==
    [title |-> Trim(sanitizeAscii(FirstString(<<parsed.title, parsed.permit_title, parsed.type>>))),
     permitNumber |-> Trim(sanitizeAscii(FirstString(
                         <<parsed.permit_number, parsed.number, parsed.permitNumber>>))),
     documentCategory |-> normalizeCategoryExtract(CoalesceAll(
                         <<parsed.document_category, parsed.category, parsed.type>>)),
     status |-> normalizeStatusExtract(parsed.status),
     startDate |-> normalizeDate(CoalesceAll(
                         <<parsed.start_date, parsed.startDate, parsed.issued_date,
                           parsed.issue_date>>)),
     endDate |-> normalizeDate(CoalesceAll(
                         <<parsed.end_date, parsed.endDate, parsed.expiration_date,
                           parsed.expiry_date>>)),
     autoRenew |-> normalizeBoolean(Coalesce(parsed.auto_renew, parsed.autoRenew)),
     jurisdiction |-> Trim(sanitizeAscii(FirstString(
                         <<parsed.jurisdiction, parsed.jurisdictionName>>))),
     issuingAuthority |-> Trim(sanitizeAscii(FirstString(
                         <<parsed.issuing_authority, parsed.issuingAuthority>>))),
     rawFields |-> parsed]

\* A faulty variant of PermitsPOST: the model is asked before the file is
\* stored.
PermitsPOSTModelFirst(db, req) ==
    IF req.file = Null THEN Traced(Reply(db, 400, "No file uploaded", Null), <<>>)
    ELSE IF req.auth.kind # "user" THEN Traced(Reply(db, 401, "Unauthorized", Null), <<>>)
    ELSE IF req.uploadOk
    THEN Traced(Reply(db, 500, "No content returned from model", Null), <<"model", "upload">>)
    ELSE Traced(Reply(db, 500, "storage unavailable", Null), <<"model", "upload">>)

\* req.model is what the hosted model does: "throw" (the call fails),
\* "empty" (no content), "unparseable" (content that is not JSON), "array"
\* (JSON that is no object) or "object" with the parsed object.
PermitsPOST(db, req) ==
    LET file == req.file
        a == gatewayUser(db, req.auth)
        r == resolveOrUploadSourceFile(a.db, req.form, a.user.id, file, req.uploadOk)
        asked == r.calls \o <<"model">>
    IN  IF file = Null THEN Traced(Reply(db, 400, "No file uploaded", Null), <<>>)
        ELSE IF a.outcome # "user"
        THEN Traced(Reply(a.db, 401, "Unauthorized", Null), <<>>)
        ELSE IF r.outcome = "throw"
        THEN Traced(Reply(r.db, r.status, r.message, Null), r.calls)
        ELSE IF req.model.kind = "throw"
        THEN Traced(Unhandled(r.db, "model call failed"), asked)
        ELSE IF req.model.kind = "empty"
        THEN Traced(Reply(r.db, 500, "No content returned from model", Null), asked)
        ELSE IF req.model.kind = "unparseable"
        THEN Traced(Reply(r.db, 500, "Unexpected token in JSON",
                          [rawContent |-> "not json"]), asked)
        ELSE IF req.model.kind = "array"
        THEN Traced(Reply(r.db, 500, "Model response was not an object",
                          [rawContent |-> "[]"]), asked)
        ELSE Traced(Reply(r.db, 200, "",
                          [fields |-> ExtractedFields(req.model.parsed),
                           sourceFile |-> r.meta]), asked)

----------------------------------------------------------------------------
(* The requests of the model. *)

Sessions == {AuthUser(User1), AuthUser(User2)}
Auths == Sessions \cup {AuthNone, AuthError}

\* Route parameters: the ids the sequences hand out, and ones that are not
\* ids.
IdChunk(n) == CASE n = 1 -> "1" [] n = 2 -> "2" [] n = 3 -> "3" [] OTHER -> "4"
BusinessParams == {<<IdChunk(n)>> : n \in 1..MaxBusinessId}
DocumentParams == {<<IdChunk(n)>> : n \in 1..MaxDocumentId}
ProfilePayload == [name |-> Undef, phone |-> Undef]

BusinessPayload ==
    [name |-> Undef, phone |-> Undef, notes |-> Undef,
     businessTypeName |-> Undef, jurisdictionName |-> Undef]

DocumentPayload ==
    [title |-> Undef, permitNumber |-> Undef, documentCategory |-> Undef,
     status |-> Undef, startDate |-> Undef, endDate |-> Undef,
     autoRenew |-> Undef, rawExtraction |-> Undef,
     jurisdictionName |-> Undef, issuingAuthorityName |-> Undef,
     sourceFileBucket |-> Undef, sourceFilePath |-> Undef,
     sourceFileContentType |-> Undef, sourceFileName |-> Undef,
     sourceFileSize |-> Undef]

SubmitPayload ==
    [userEmail |-> Undef, businessName |-> Undef, businessTypeName |-> Undef,
     jurisdictionName |-> Undef, issuingAuthorityName |-> Undef,
     title |-> Undef, permitTypeName |-> Undef, permitNumber |-> Undef,
     documentCategory |-> Undef, status |-> Undef, startDate |-> Undef,
     endDate |-> Undef, autoRenew |-> Undef, rawExtraction |-> Undef,
     sourceFileBucket |-> Undef, sourceFilePath |-> Undef,
     sourceFileContentType |-> Undef, sourceFileName |-> Undef,
     sourceFileSize |-> Undef]

\* A file reference under the id of a user, as the gateway names it.
PathOf(userId, object) == userId \o <<"/">> \o UPLOAD_DAY \o <<"/", object>>

\* The requests of the specification Spec: every route, by every kind of
\* caller, with a few payloads each.
ProfileGETRequests == {[op |-> "ProfileGET", auth |-> a] : a \in Auths}

BusinessGETRequests == {[op |-> "BusinessGET", auth |-> a] : a \in Auths}

\* The object the hosted model answers with: every key the gateway reads.
ModelObject ==
    [title |-> Undef, permit_title |-> Undef, type |-> Undef,
     permit_number |-> Undef, number |-> Undef, permitNumber |-> Undef,
     document_category |-> Undef, category |-> Undef, status |-> Undef,
     start_date |-> Undef, startDate |-> Undef, issued_date |-> Undef,
     issue_date |-> Undef, end_date |-> Undef, endDate |-> Undef,
     expiration_date |-> Undef, expiry_date |-> Undef,
     auto_renew |-> Undef, autoRenew |-> Undef,
     jurisdiction |-> Undef, jurisdictionName |-> Undef,
     issuing_authority |-> Undef, issuingAuthority |-> Undef]

\* FormData.get gives null for a field the form does not have.
PermitForm ==
    [sourceFileBucket |-> Null, sourceFilePath |-> Null,
     sourceFileContentType |-> Null, sourceFileName |-> Null,
     sourceFileSize |-> Null]

UploadedFile == [name |-> <<"scan", ".", "PDF">>, type |-> <<"application/pdf">>, size |-> 7]

----------------------------------------------------------------------------
(* The router: the handler of each route. *)

Route(db, req) ==
    CASE req.op = "ProfileGET" -> ProfileGET(db, req)
      [] req.op = "ProfilePATCH" -> ProfilePATCH(db, req)
      [] req.op = "BusinessGET" -> BusinessGET(db, req)
      [] req.op = "BusinessPOST" -> BusinessPOST(db, req)
      [] req.op = "BusinessPATCH" -> BusinessPATCH(db, req)
      [] req.op = "BusinessDELETE" -> BusinessDELETE(db, req)
      [] req.op = "DocumentsGET" -> DocumentsGET(db, req)
      [] req.op = "DocumentsPOST" -> DocumentsPOST(db, req)
      [] req.op = "DocumentPATCH" -> DocumentPATCH(db, req)
      [] req.op = "FileGET" -> FileGET(db, req)
      [] req.op = "SubmitPOST" -> SubmitPOST(db, req)
      [] req.op = "PermitsPOST" -> PermitsPOST(db, req)

----------------------------------------------------------------------------
(* The state machine. *)

\* The sequences and pools stay within the bounds of the model.
WithinBounds(db) ==
    /\ db.nextBusinessId <= MaxBusinessId + 1
    /\ db.nextDocumentId <= MaxDocumentId + 1
    /\ db.uuidsUsed <= MaxUuids
    /\ Cardinality(db.objects) <= MaxObjects

\* A handler's result becomes the next state.
Commit(r, req) ==
    /\ WithinBounds(r.db)
    /\ users' = r.db.users
    /\ businesses' = r.db.businesses
    /\ documents' = r.db.documents
    /\ businessTypes' = r.db.businessTypes
    /\ jurisdictions' = r.db.jurisdictions
    /\ issuingAuthorities' = r.db.issuingAuthorities
    /\ permitTypes' = r.db.permitTypes
    /\ nextBusinessId' = r.db.nextBusinessId
    /\ nextDocumentId' = r.db.nextDocumentId
    /\ uuidsUsed' = r.db.uuidsUsed
    /\ objects' = r.db.objects
    /\ deletedBusinessIds' =
          IF req.op = "BusinessDELETE" /\ r.resp.status = 200
          THEN deletedBusinessIds \cup {parseId(req.id).v}
          ELSE deletedBusinessIds
    /\ last' = [req |-> req, resp |-> r.resp]

\* A request handled with no other request between its awaits.
Handle(r, req) == Commit(r, req) /\ UNCHANGED <<inflight, client>>

\* The slots of the requests in flight, and the empty slot.
InFlight == 1 .. MaxInFlight

Idle == [phase |-> "idle"]

\* The permit form of the dashboard page when it is mounted: no file, no
\* extraction running, no cooldown.  Times are ticks of the page's clock;
\* sentAt, succeededAt and refreshedAt (a Num, or Null) record when the last extraction was
\* sent, when the last one succeeded and when the last refresh succeeded.
FreshPage ==
    [permitSourceFile |-> Null, permitSourceFileMeta |-> Null,
     permitExtractionLoading |-> FALSE, isRefresh |-> FALSE, form |-> Null,
     nextPermitRefreshAt |-> Null, error |-> "",
     now |-> 0, sentAt |-> Null, succeededAt |-> Null, refreshedAt |-> Null]

NoRequest == [req |-> [op |-> "none"], resp |-> [kind |-> "none", status |-> 0,
                                                   error |-> "", body |-> Null]]

Init ==
    /\ users = {}
    /\ businesses = {}
    /\ documents = {}
    /\ businessTypes = {}
    /\ jurisdictions = {}
    /\ issuingAuthorities = {}
    /\ permitTypes = {}
    /\ nextBusinessId = 1
    /\ nextDocumentId = 1
    /\ uuidsUsed = 0
    /\ objects = {}
    /\ deletedBusinessIds = {}
    /\ inflight = [p \in InFlight |-> Idle]
    /\ client = FreshPage
    /\ last = NoRequest

DoProfileGET(requests) == \E req \in requests : Handle(ProfileGET(DB, req), req)
DoProfilePATCH(requests) == \E req \in requests : Handle(ProfilePATCH(DB, req), req)
DoBusinessGET(requests) == \E req \in requests : Handle(BusinessGET(DB, req), req)
DoBusinessPOST(requests) == \E req \in requests : Handle(BusinessPOST(DB, req), req)
DoBusinessPATCH(requests) == \E req \in requests : Handle(BusinessPATCH(DB, req), req)
DoBusinessDELETE(requests) == \E req \in requests : Handle(BusinessDELETE(DB, req), req)
DoDocumentsGET(requests) == \E req \in requests : Handle(DocumentsGET(DB, req), req)
DoDocumentsPOST(requests) == \E req \in requests : Handle(DocumentsPOST(DB, req), req)
DoDocumentPATCH(requests) == \E req \in requests : Handle(DocumentPATCH(DB, req), req)
DoFileGET(requests) == \E req \in requests : Handle(FileGET(DB, req), req)
DoSubmitPOST(requests) == \E req \in requests : Handle(SubmitPOST(DB, req), req)
DoPermitsPOST(requests) == \E req \in requests : Handle(PermitsPOST(DB, req), req)

----------------------------------------------------------------------------
(* Spec: the whole interface, every kind of caller, one or two payloads per
   route. *)

ACME == [BusinessPayload EXCEPT !.name = Str(<<"Acme">>)]
FOOD_PERMIT == [DocumentPayload EXCEPT !.title = Str(<<"Food permit">>)]
\* The same permit with a file reference under the id of `user`.
WithFile(payload, user) ==
    [payload EXCEPT !.sourceFileBucket = Str(PERMIT_FILES_BUCKET),
                    !.sourceFilePath = Str(PathOf(user.id, "f1")),
                    !.sourceFileSize = Num(7)]

\* Who asks for what: the users for every company, callers without a
\* session for one company, and everyone for an id that is no number.
Callers ==
    {[auth |-> a, id |-> id] : a \in Sessions, id \in BusinessParams}
    \cup {[auth |-> a, id |-> id] : a \in Auths, id \in {<<"1">>, <<"x">>}}

SpecBusinessPOST ==
    {[op |-> "BusinessPOST", auth |-> a, badJson |-> FALSE, payload |-> ACME] :
        a \in Auths}

SpecBusinessPATCH ==
    {[op |-> "BusinessPATCH", auth |-> c.auth, id |-> c.id, badJson |-> FALSE,
      payload |-> ACME] : c \in Callers}

SpecBusinessDELETE ==
    {[op |-> "BusinessDELETE", auth |-> c.auth, id |-> c.id] : c \in Callers}

SpecDocumentsGET ==
    {[op |-> "DocumentsGET", auth |-> c.auth, id |-> c.id] : c \in Callers}

SpecDocumentsPOST ==
    {[op |-> "DocumentsPOST", auth |-> c.auth, id |-> c.id, badJson |-> FALSE,
      payload |-> WithFile(FOOD_PERMIT, User1)] : c \in Callers}

SpecDocumentPATCH ==
    {[op |-> "DocumentPATCH", auth |-> c.auth, id |-> c.id, documentId |-> d,
      badJson |-> FALSE, payload |-> FOOD_PERMIT] :
        c \in Callers, d \in DocumentParams}

SpecFileGET ==
    {[op |-> "FileGET", auth |-> c.auth, id |-> c.id, documentId |-> d,
      storageUp |-> TRUE] : c \in Callers, d \in DocumentParams}

\* Submissions: by a session, and by no session under the email of User1.
SpecSubmitPOST ==
    {[op |-> "SubmitPOST", auth |-> a, badJson |-> FALSE,
      payload |-> [SubmitPayload EXCEPT !.businessName = Str(<<"Acme">>),
                                        !.userEmail = e]] :
        a \in Auths, e \in {Undef, Str(<<" ", "A", "@", "x">>)}}

SpecProfilePATCH ==
    {[op |-> "ProfilePATCH", auth |-> a, badJson |-> FALSE,
      payload |-> [ProfilePayload EXCEPT !.name = Str(<<"Nell">>)]] :
        a \in {AuthUser(User1), AuthNone, AuthError}}

\* Extractions of a file that is in the bucket already, which the model
\* answers with nothing or with an object that has a title.
SpecPermitsPOST ==
    {[op |-> "PermitsPOST", auth |-> a, file |-> UploadedFile,
      form |-> [PermitForm EXCEPT !.sourceFileBucket = Str(PERMIT_FILES_BUCKET),
                                  !.sourceFilePath = Str(PathOf(User1.id, "f1"))],
      uploadOk |-> TRUE, model |-> m] :
        a \in Auths,
        m \in {[kind |-> "empty"],
               [kind |-> "object",
                parsed |-> [ModelObject EXCEPT !.title = Str(<<"Food permit">>)]]}}

Next ==
    \/ DoProfileGET(ProfileGETRequests)
    \/ DoBusinessGET(BusinessGETRequests)
    \/ DoBusinessPOST(SpecBusinessPOST)
    \/ DoBusinessPATCH(SpecBusinessPATCH)
    \/ DoBusinessDELETE(SpecBusinessDELETE)
    \/ DoDocumentsGET(SpecDocumentsGET)
    \/ DoDocumentsPOST(SpecDocumentsPOST)
    \/ DoDocumentPATCH(SpecDocumentPATCH)
    \/ DoFileGET(SpecFileGET)
    \/ DoSubmitPOST(SpecSubmitPOST)
    \/ DoProfilePATCH(SpecProfilePATCH)
    \/ DoPermitsPOST(SpecPermitsPOST)

Spec == Init /\ [][Next]_vars

----------------------------------------------------------------------------
(* SpecFile: companies, and documents created, updated and submitted with
   and without file references. *)

\* A payload that clears the file reference.
Cleared(payload) ==
    [payload EXCEPT !.sourceFileBucket = Str(<<>>), !.sourceFilePath = Str(<<>>)]

FileBusinessPOST ==
    {[op |-> "BusinessPOST", auth |-> a, badJson |-> FALSE, payload |-> ACME] :
        a \in Sessions}

\* User1 works through the document routes, User2 through submissions.
FileDocumentsPOST ==
    {[op |-> "DocumentsPOST", auth |-> AuthUser(User1), id |-> id, badJson |-> FALSE,
      payload |-> p] :
        id \in BusinessParams, p \in {FOOD_PERMIT, WithFile(FOOD_PERMIT, User1)}}

FileDocumentPATCH ==
    {[op |-> "DocumentPATCH", auth |-> AuthUser(User1), id |-> id, documentId |-> d,
      badJson |-> FALSE, payload |-> p] :
        id \in BusinessParams, d \in DocumentParams,
        p \in {FOOD_PERMIT, Cleared(FOOD_PERMIT), WithFile(FOOD_PERMIT, User1),
               WithFile(FOOD_PERMIT, User2)}}

SUBMISSION ==
    [SubmitPayload EXCEPT !.businessName = Str(<<"Acme">>),
                          !.title = Str(<<"Food permit">>)]

FileSubmitPOST ==
    {[op |-> "SubmitPOST", auth |-> AuthUser(User2), badJson |-> FALSE, payload |-> p] :
        p \in {SUBMISSION,
               [WithFile(SUBMISSION, User2) EXCEPT
                   !.sourceFileBucket = Str(<<" ">> \o PERMIT_FILES_BUCKET)],
               WithFile(SUBMISSION, User1)}}
    \cup {[op |-> "SubmitPOST", auth |-> AuthNone, badJson |-> FALSE,
           payload |-> [WithFile(SUBMISSION, User1) EXCEPT
                           !.userEmail = User1.email]]}

NextFile ==
    \/ DoBusinessPOST(FileBusinessPOST)
    \/ DoDocumentsPOST(FileDocumentsPOST)
    \/ DoDocumentPATCH(FileDocumentPATCH)
    \/ DoSubmitPOST(FileSubmitPOST)

SpecFile == Init /\ [][NextFile]_vars

----------------------------------------------------------------------------
(* Claims about the file reference of a document, under SpecFile. *)

\* The file references the claims try: the designated bucket, another one,
\* a padded one and a number; a path under each user's id, one that is only
\* the id, and a padded one; sizes of every type a JSON body can carry.
FileBuckets ==
    {Str(PERMIT_FILES_BUCKET), Str(<<"other-files">>),
     Str(<<" ">> \o PERMIT_FILES_BUCKET), Num(1)}
FilePaths ==
    {Str(PathOf(u.id, "f1")) : u \in Identities}
    \cup {Str(User1.id), Str(<<" ">> \o PathOf(User1.id, "f1"))}
FileSizes ==
    {Undef, Null, Num(7), Num(0), Infinity, Str(<<"7">>), Str(<<"-", "7", "x">>),
     Str(<<"x">>), Str(<<" ">>)}

\* Every bucket with every path, and every size with the designated bucket
\* and the paths under a user's id.
FileReference(b, p, z) ==
    [FOOD_PERMIT EXCEPT !.sourceFileBucket = b, !.sourceFilePath = p,
                        !.sourceFileSize = z]
FileReferencePayloads ==
    {FileReference(b, p, Num(7)) : b \in FileBuckets, p \in FilePaths}
    \cup {FileReference(Str(PERMIT_FILES_BUCKET), Str(PathOf(u.id, "f1")), z) :
            u \in Identities, z \in FileSizes}

\* The companies of a user, and the documents of a company, as route
\* parameters.
CompaniesOf(user) ==
    {id \in BusinessParams :
        \E b \in businesses : b.id = parseId(id).v /\ b.userId = user.id}
DocumentsIn(id) ==
    {d \in DocumentParams :
        \E x \in documents : x.id = parseId(d).v /\ x.businessId = parseId(id).v}
Stored(d) == CHOOSE x \in documents : x.id = parseId(d).v

CreateRequest(a, id, p) ==
    [op |-> "DocumentsPOST", auth |-> a, id |-> id, badJson |-> FALSE, payload |-> p]
UpdateRequest(a, id, d, p) ==
    [op |-> "DocumentPATCH", auth |-> a, id |-> id, documentId |-> d,
     badJson |-> FALSE, payload |-> p]

\* A response that carries the document saved with the payload's reference.
AcceptedReference(r, p) ==
    /\ r.resp.status \in {200, 201}
    /\ r.resp.body.sourceFileBucket = p.sourceFileBucket
    /\ r.resp.body.sourceFilePath = p.sourceFilePath
    /\ \E x \in r.db.documents :
          /\ x.id = r.resp.body.id
          /\ x.sourceFileBucket = p.sourceFileBucket
          /\ x.sourceFilePath = p.sourceFilePath
\* A rejection that leaves the documents as they were.
RejectedReference(r) ==
    /\ r.resp.status = 400
    /\ r.resp.error \in {"Invalid source file reference",
                         "Invalid source file metadata",
                         "Invalid source file size"}
    /\ r.db.documents = documents

DesignatedAndOwn(p, user) ==
    /\ p.sourceFileBucket = Str(PERMIT_FILES_BUCKET)
    /\ IsStr(p.sourceFilePath)
    /\ StartsWith(p.sourceFilePath.v, user.id \o <<"/">>)
\* The size is a finite number, or a string Number.parseInt reads a number
\* from.
FiniteSize(p) ==
    \/ p.sourceFileSize.t = "num"
    \/ IsStr(p.sourceFileSize) /\ ParseInt(p.sourceFileSize.v) # NaN

\* Every create and update by the owner of the company (of an existing
\* document, for an update) accepts the reference exactly when Valid says
\* so, and rejects it otherwise.
ReferenceRule(Valid(_, _)) ==
    \A a \in Sessions : \A id \in CompaniesOf(a.user) : \A p \in FileReferencePayloads :
        /\ LET r == DocumentsPOST(DB, CreateRequest(a, id, p))
           IN  IF Valid(p, a.user) THEN AcceptedReference(r, p) ELSE RejectedReference(r)
        /\ \A d \in DocumentsIn(id) :
              LET r == DocumentPATCH(DB, UpdateRequest(a, id, d, p))
              IN  IF Valid(p, a.user) THEN AcceptedReference(r, p) ELSE RejectedReference(r)

OriginalValid(p, user) == DesignatedAndOwn(p, user)
AmendedValid(p, user) == DesignatedAndOwn(p, user) /\ FiniteSize(p)

\* C1 as stated: in document create and update, a payload with a nonempty
\* bucket and path has its file reference accepted if and only if the
\* bucket is "permit-files" and the path starts with "<requestingUserId>/".
C1_AcceptedIffBucketAndPath == ReferenceRule(OriginalValid)

\* C1 amended: the reference is accepted if and only if the bucket is
\* "permit-files", the path starts with "<requestingUserId>/" and the size
\* supplied is a finite number (a number, or a string Number.parseInt
\* reads one from); any other bucket, and a path under another user's id, is
\* rejected.
C1_AcceptedIffBucketPathAndSize == ReferenceRule(AmendedValid)

\* A create with a reference under the caller's id was answered 201 with it.
C1_Witness ==
    /\ last.req.op = "DocumentsPOST"
    /\ last.resp.status = 201
    /\ last.req.payload.sourceFileBucket = Str(PERMIT_FILES_BUCKET)
    /\ last.resp.body.sourceFilePath = last.req.payload.sourceFilePath
    /\ last.resp.body.sourceFilePath # Null

\* C2: every stored document has bucket and path both null or both
\* present, and when present the bucket is "permit-files" and the path
\* starts with the id of the user who owns the document's company, then "/".
C2_StoredReferencesAreOwn ==
    \A d \in documents :
        \/ d.sourceFileBucket = Null /\ d.sourceFilePath = Null
        \/ /\ d.sourceFileBucket = Str(PERMIT_FILES_BUCKET)
           /\ IsStr(d.sourceFilePath)
           /\ \E b \in businesses :
                 /\ b.id = d.businessId
                 /\ StartsWith(d.sourceFilePath.v, b.userId \o <<"/">>)

\* A submission has stored a document with a file reference.
C2_Witness ==
    /\ last.req.op = "SubmitPOST"
    /\ last.resp.status = 201
    /\ \E d \in documents :
          d.id = last.resp.body.document.id /\ d.sourceFilePath # Null

\* Payloads with none of the five file fields, and payloads with an empty
\* bucket and path and any of the other three.
PlainPayloads ==
    {[FOOD_PERMIT EXCEPT !.title = t, !.status = st, !.jurisdictionName = j] :
        t \in {Str(<<"Food permit">>), Str(<<"Renamed">>)},
        st \in {Undef, Str(<<"expired">>)},
        j \in {Undef, Str(<<"Austin">>)}}
ClearingPayloads ==
    {[Cleared(FOOD_PERMIT) EXCEPT !.sourceFileContentType = c,
                                  !.sourceFileName = n,
                                  !.sourceFileSize = z] :
        c \in {Undef, Str(<<"application/pdf">>)},
        n \in {Undef, Str(<<"scan", ".", "pdf">>)},
        z \in {Undef, Num(7), Str(<<"x">>)}}

\* C4: an update by the owner that supplies none of the five file fields
\* succeeds and leaves the five file columns of the document as they were;
\* one that supplies an empty bucket and an empty path succeeds and sets
\* all five to null.
C4_KeepsOrClearsReference ==
    \A a \in Sessions : \A id \in CompaniesOf(a.user) : \A d \in DocumentsIn(id) :
        /\ \A p \in PlainPayloads :
              LET r == DocumentPATCH(DB, UpdateRequest(a, id, d, p))
              IN  /\ r.resp.status = 200
                  /\ \E x \in r.db.documents :
                        x.id = Stored(d).id /\ FileColumnsOf(x) = FileColumnsOf(Stored(d))
        /\ \A p \in ClearingPayloads :
              LET r == DocumentPATCH(DB, UpdateRequest(a, id, d, p))
              IN  /\ r.resp.status = 200
                  /\ \E x \in r.db.documents :
                        x.id = Stored(d).id /\ FileColumnsOf(x) = NoSourceFile

\* An update without file fields was answered 200 with the reference the
\* document had.
C4_Witness ==
    /\ last.req.op = "DocumentPATCH"
    /\ last.resp.status = 200
    /\ last.req.payload = FOOD_PERMIT
    /\ last.resp.body.sourceFilePath # Null

----------------------------------------------------------------------------
(* SpecOwner: two users who create companies and documents, delete
   companies, and ask for each other's. *)

OwnerDocumentsPOST ==
    {[op |-> "DocumentsPOST", auth |-> AuthUser(User2), id |-> id, badJson |-> FALSE,
      payload |-> WithFile(FOOD_PERMIT, User2)] : id \in BusinessParams}

\* What a user may ask about the company `id` and its document `d`.
ProbesOn(a, id, d) ==
    {[op |-> "BusinessPATCH", auth |-> a, id |-> id, badJson |-> FALSE, payload |-> ACME],
     [op |-> "BusinessDELETE", auth |-> a, id |-> id],
     [op |-> "DocumentsGET", auth |-> a, id |-> id],
     [op |-> "DocumentsPOST", auth |-> a, id |-> id, badJson |-> FALSE,
      payload |-> FOOD_PERMIT],
     [op |-> "DocumentPATCH", auth |-> a, id |-> id, documentId |-> d,
      badJson |-> FALSE, payload |-> FOOD_PERMIT],
     [op |-> "FileGET", auth |-> a, id |-> id, documentId |-> d, storageUp |-> TRUE],
     [op |-> "FileGET", auth |-> a, id |-> id, documentId |-> d, storageUp |-> FALSE]}

\* User2 stores documents; User1 asks about every id; both delete.
OwnerProbes(op) ==
    {req \in UNION {ProbesOn(AuthUser(User1), id, d) :
                        id \in BusinessParams, d \in DocumentParams} :
        req.op = op /\ (op = "FileGET" => req.storageUp)}

OwnerBusinessDELETE ==
    {[op |-> "BusinessDELETE", auth |-> a, id |-> id] :
        a \in Sessions, id \in BusinessParams}

NextOwner ==
    \/ DoBusinessPOST(FileBusinessPOST)
    \/ DoDocumentsPOST(OwnerDocumentsPOST \cup OwnerProbes("DocumentsPOST"))
    \/ DoBusinessDELETE(OwnerBusinessDELETE)
    \/ DoBusinessPATCH(OwnerProbes("BusinessPATCH"))
    \/ DoDocumentsGET(OwnerProbes("DocumentsGET"))
    \/ DoDocumentPATCH(OwnerProbes("DocumentPATCH"))
    \/ DoFileGET(OwnerProbes("FileGET"))

SpecOwner == Init /\ [][NextOwner]_vars

\* The database without a company and its documents, and without a document.
WithoutBusiness(db, businessId) ==
    [db EXCEPT !.businesses = {b \in @ : b.id # businessId},
               !.documents = {x \in @ : x.businessId # businessId}]
WithoutDocument(db, documentId) ==
    [db EXCEPT !.documents = {x \in @ : x.id # documentId}]

\* The companies of other users, and the documents of other users'
\* companies, as route parameters.
CompaniesOfOthers(user) ==
    {id \in BusinessParams :
        \E b \in businesses : b.id = parseId(id).v /\ b.userId # user.id}
DocumentsOfOthers(user) ==
    {d \in DocumentParams :
        \E x \in documents : \E b \in businesses :
            x.id = parseId(d).v /\ b.id = x.businessId /\ b.userId # user.id}

\* C7: for every company and document operation by a user on an id, the
\* response when the record exists but belongs to another user is a 404
\* and is the response the same request gets when no record has that id.
C7_NotOwnedIsNotFound ==
    \A a \in Sessions :
        /\ \A id \in CompaniesOfOthers(a.user) : \A d \in DocumentParams :
              \A req \in ProbesOn(a, id, d) :
                  /\ Route(DB, req).resp.status = 404
                  /\ Route(DB, req).resp
                        = Route(WithoutBusiness(DB, parseId(id).v), req).resp
        /\ \A id \in CompaniesOf(a.user) : \A d \in DocumentsOfOthers(a.user) :
              \A req \in {r \in ProbesOn(a, id, d) : r.op \in {"DocumentPATCH", "FileGET"}} :
                  /\ Route(DB, req).resp.status = 404
                  /\ Route(DB, req).resp
                        = Route(WithoutDocument(DB, parseId(d).v), req).resp

\* A user asked for the file of another user's document, which is stored,
\* and was answered 404.
C7_Witness ==
    /\ last.req.op = "FileGET"
    /\ last.resp.status = 404
    /\ last.req.id \in CompaniesOfOthers(last.req.auth.user)
    /\ last.req.documentId \in DocumentsOfOthers(last.req.auth.user)
    /\ \E x \in documents :
          /\ x.id = parseId(last.req.documentId).v
          /\ x.businessId = parseId(last.req.id).v
          /\ x.sourceFilePath # Null

\* C8: after a DELETE of a company has succeeded, no stored document
\* refers to the company, and every later list, update and file request
\* for it or its documents is answered 404.
C8_DeletedCompanyIsGone ==
    \A n \in deletedBusinessIds :
        /\ \A x \in documents : x.businessId # n
        /\ \A b \in businesses : b.id # n
        /\ \A a \in Sessions : \A d \in DocumentParams :
              \A req \in {r \in ProbesOn(a, <<IdChunk(n)>>, d) : r.op # "DocumentsPOST"} :
                  Route(DB, req).resp.status = 404

\* A company that had a document was deleted, and a list of its documents
\* was then answered 404.
C8_Witness ==
    /\ last.req.op = "DocumentsGET"
    /\ last.resp.status = 404
    /\ parseId(last.req.id).v \in deletedBusinessIds
    /\ nextDocumentId > 1
    /\ documents = {}

----------------------------------------------------------------------------
(* SpecCompany: companies created under business-type labels, listed and
   deleted. *)

RESTAURANT == <<"Restaurant">>

Labelled(label) == [ACME EXCEPT !.businessTypeName = label]

CompanyBusinessPOST ==
    {[op |-> "BusinessPOST", auth |-> a, badJson |-> FALSE, payload |-> Labelled(l)] :
        a \in Sessions,
        l \in {Undef, Str(RESTAURANT), Str(<<" ">> \o RESTAURANT \o <<" ">>),
               Str(ToLowerCase(RESTAURANT))}}

CompanyBusinessGET == {[op |-> "BusinessGET", auth |-> a] : a \in Sessions}

NextCompany ==
    \/ DoBusinessPOST(CompanyBusinessPOST)
    \/ DoBusinessGET(CompanyBusinessGET)
    \/ DoBusinessDELETE(OwnerBusinessDELETE)

SpecCompany == Init /\ [][NextCompany]_vars

\* Nonblank labels: plain, in another case, padded, of several words.
Labels ==
    {RESTAURANT, ToLowerCase(RESTAURANT), ToUpperCase(RESTAURANT),
     <<" ">> \o RESTAURANT, RESTAURANT \o <<" ", " ">>,
     <<"Food", " ", "Truck">>, <<"\t", "Food", " ", "Truck", "\n">>}

\* A company created under the label L, when the create succeeds, is in the
\* list the caller then gets, with the business type Shown(L).
RoundTrip(Shown(_)) ==
    \A a \in Sessions : \A L \in Labels :
        LET created == BusinessPOST(DB, [op |-> "BusinessPOST", auth |-> a,
                                         badJson |-> FALSE,
                                         payload |-> Labelled(Str(L))])
            listed == BusinessGET(created.db, [op |-> "BusinessGET", auth |-> a])
        IN  created.resp.status = 201 =>
                /\ listed.resp.status = 200
                /\ \E c \in listed.resp.body :
                      /\ c.id = created.resp.body.id
                      /\ c.businessTypeName = Str(Shown(L))

Verbatim(L) == L

\* C9 as stated: for every nonblank label L, a company created with
\* businessTypeName L is listed with businessTypeName equal to L verbatim,
\* whether or not a lookup row named L existed before.
C9_LabelVerbatim == RoundTrip(Verbatim)

\* C9 amended: for every nonblank label L, a company created with
\* businessTypeName L is listed with businessTypeName equal to L without
\* its leading and trailing white space, its case preserved, whether or not
\* a lookup row of that name existed before.
C9_LabelTrimmed == RoundTrip(Trim)

\* The caller's list shows a company under "Restaurant" and one under
\* "restaurant": each label came back in its own case, from its own lookup
\* row.
C9_Witness ==
    /\ last.req.op = "BusinessGET"
    /\ last.resp.status = 200
    /\ \E c \in last.resp.body : c.businessTypeName = Str(RESTAURANT)
    /\ \E c \in last.resp.body : c.businessTypeName = Str(ToLowerCase(RESTAURANT))
    /\ Cardinality(businessTypes) = 2

----------------------------------------------------------------------------
(* SpecProfile: a user who edits the profile, reads it, and works on a
   company and its document. *)

NELL == [ProfilePayload EXCEPT !.name = Str(<<" ", "Nell", " ">>),
                               !.phone = Str(<<" ", "555", " ">>)]

ProfileProfilePATCH ==
    {[op |-> "ProfilePATCH", auth |-> a, badJson |-> FALSE, payload |-> NELL] :
        a \in Sessions}

ProfileBusinessPOST ==
    {[op |-> "BusinessPOST", auth |-> AuthUser(User1), badJson |-> FALSE, payload |-> ACME]}

ProfileDocumentsPOST ==
    {CreateRequest(AuthUser(User1), id, WithFile(FOOD_PERMIT, User1)) :
        id \in BusinessParams}

\* Updates that name a file under another user's id.
ProfileDocumentPATCH ==
    {UpdateRequest(AuthUser(User1), id, d, WithFile(FOOD_PERMIT, User2)) :
        id \in BusinessParams, d \in DocumentParams}

NextProfile ==
    \/ DoProfilePATCH(ProfileProfilePATCH)
    \/ DoProfileGET(ProfileGETRequests)
    \/ DoBusinessPOST(ProfileBusinessPOST)
    \/ DoDocumentsPOST(ProfileDocumentsPOST)
    \/ DoDocumentPATCH(ProfileDocumentPATCH)

SpecProfile == Init /\ [][NextProfile]_vars

\* C3: an update of a document by its owner that names a file path under
\* another user's id is answered 400 and mutates no row.
C3_RejectedUpdateMutatesNothing ==
    \A a \in Sessions : \A id \in CompaniesOf(a.user) : \A d \in DocumentsIn(id) :
        \A u \in Identities \ {a.user} :
            LET r == DocumentPATCH(DB, UpdateRequest(a, id, d, WithFile(FOOD_PERMIT, u)))
            IN  r.resp.status = 400 /\ r.db = DB

\* C10: the GET /profile that follows a successful PATCH /profile by the
\* same user returns the name and the phone of the PATCH, trimmed.
C10_ProfileEditIsRead ==
    [][(/\ last.req.op = "ProfilePATCH"
        /\ last.resp.status = 200
        /\ last'.req.op = "ProfileGET"
        /\ last'.req.auth = last.req.auth)
       => /\ last'.resp.status = 200
          /\ last'.resp.body.name = Str(Trim(last.req.payload.name.v))
          /\ last'.resp.body.phone = Str(Trim(last.req.payload.phone.v))]_vars

----------------------------------------------------------------------------
(* Claims about the callers, under Spec. *)

\* The companies of a user and the documents of those companies.
RecordsOf(user) ==
    [businesses |-> {b \in businesses : b.userId = user.id},
     documents |-> {x \in documents :
                      \E b \in businesses : b.id = x.businessId /\ b.userId = user.id}]

\* C5: the companies of a user and their documents are created, changed
\* and deleted only by requests of that user.
C5_OnlyOwnRecordsChange ==
    [][\A u \in Identities :
          last'.req.auth # AuthUser(u) => RecordsOf(u)' = RecordsOf(u)]_vars

\* C6: every request made with no session or an invalid session is
\* answered 401, whatever the route, the path parameters and the body.
C6_NoSessionIs401 ==
    (last.req.op # "none" /\ last.req.auth.kind \in {"none", "error"})
        => last.resp.status = 401

----------------------------------------------------------------------------
(* Claims about the identity bridge, under Spec. *)

\* C11: ensureProfile is an idempotent upsert keyed by the user id: for
\* every identity, a call on the current user table succeeds, leaves exactly
\* one row with that id whose email and name are the ones derived from the
\* identity, and a second call with the same identity changes nothing.
C11_EnsureProfileIsIdempotentUpsert ==
    \A u \in Identities :
        LET once == ensureProfile(users, u)
            twice == ensureProfile(once.users, u)
            rows == {r \in once.users : r.id = u.id}
        IN  /\ once.ok
            /\ Cardinality(rows) = 1
            /\ \A r \in rows : r.email = u.email.v /\ r.name = resolveName(u)
            /\ twice.ok
            /\ twice.users = once.users

\* The errors of the answers a route gives before it asks who the caller is.
BeforeAuthentication ==
    {"A valid business id is required", "A valid company id is required",
     "Valid ids are required", "Invalid JSON payload", "Permit title is required",
     "Business name is required", "No file uploaded"}

\* C12: after a request with a session has been handled by any route (and
\* was not turned away before the route authenticates), a user row with the
\* id of the session's user exists.
C12_AuthenticatedCallerHasRow ==
    (/\ last.req.op # "none"
     /\ last.req.auth.kind = "user"
     /\ ~(last.resp.status = 400 /\ last.resp.error \in BeforeAuthentication))
        => \E r \in users : r.id = last.req.auth.user.id

----------------------------------------------------------------------------
(* SpecLookup: one user who creates and updates companies and documents and
   submits, with labels for the lookup tables. *)

AUSTIN == <<"Austin">>

NextLookup ==
    \/ DoBusinessPOST(
         {[op |-> "BusinessPOST", auth |-> AuthUser(User1), badJson |-> FALSE,
           payload |-> [ACME EXCEPT !.businessTypeName = Str(RESTAURANT),
                                    !.jurisdictionName = Str(AUSTIN)]]})
    \/ DoBusinessPATCH(
         {[op |-> "BusinessPATCH", auth |-> AuthUser(User1), id |-> id, badJson |-> FALSE,
           payload |-> [ACME EXCEPT !.businessTypeName = Str(<<"Bakery">>),
                                    !.jurisdictionName = Str(<<" ">>)]] :
             id \in BusinessParams})
    \/ DoDocumentsPOST(
         {[op |-> "DocumentsPOST", auth |-> AuthUser(User1), id |-> id, badJson |-> FALSE,
           payload |-> [FOOD_PERMIT EXCEPT !.jurisdictionName = Str(<<" ">> \o AUSTIN),
                                           !.issuingAuthorityName = Undef]] :
             id \in BusinessParams})
    \/ DoDocumentPATCH(
         {[op |-> "DocumentPATCH", auth |-> AuthUser(User1), id |-> id, documentId |-> d,
           badJson |-> FALSE,
           payload |-> [FOOD_PERMIT EXCEPT !.jurisdictionName = Str(<<"Travis">>),
                                           !.issuingAuthorityName = Str(<<"City">>)]] :
             id \in BusinessParams, d \in DocumentParams})
    \/ DoSubmitPOST(
         {[op |-> "SubmitPOST", auth |-> AuthUser(User1), badJson |-> FALSE,
           payload |-> [SUBMISSION EXCEPT !.businessTypeName = Str(RESTAURANT),
                                          !.jurisdictionName = Str(AUSTIN),
                                          !.issuingAuthorityName = Str(<<"City">>),
                                          !.permitTypeName = Str(<<"Food">>)]]})

SpecLookup == Init /\ [][NextLookup]_vars

\* The lookup table each label of a payload goes to.
LookupTables(db) ==
    [businessTypeName |-> db.businessTypes,
     jurisdictionName |-> db.jurisdictions,
     issuingAuthorityName |-> db.issuingAuthorities,
     permitTypeName |-> db.permitTypes]

LookupFields == {"businessTypeName", "jurisdictionName", "issuingAuthorityName",
                 "permitTypeName"}

\* The label a route reads from a field of the payload: trimmed, empty when
\* the field is absent, no string, or one the route does not read.
LabelOf(req, field) ==
    IF /\ field \in DOMAIN req.payload
       /\ IsStr(req.payload[field])
       /\ ~(req.op \in {"DocumentsPOST", "DocumentPATCH"} /\ field = "businessTypeName")
    THEN Trim(req.payload[field].v)
    ELSE <<>>

\* Labels: absent, blank, padded, and one no transition supplies to most
\* tables.
LookupLabels == {Undef, Str(<<" ">>), Str(<<" ">> \o AUSTIN), Str(<<"Travis">>)}

\* Company creates and submits by either user, and company updates,
\* document creates and document updates by the first user, on every id,
\* with every pair of labels.
LookupRequests ==
    {[op |-> "BusinessPOST", auth |-> a, badJson |-> FALSE,
      payload |-> [ACME EXCEPT !.businessTypeName = x, !.jurisdictionName = y]] :
        a \in Sessions, x \in LookupLabels, y \in LookupLabels}
    \cup
    {[op |-> "BusinessPATCH", auth |-> AuthUser(User1), id |-> id, badJson |-> FALSE,
      payload |-> [ACME EXCEPT !.businessTypeName = x, !.jurisdictionName = y]] :
        id \in BusinessParams, x \in LookupLabels, y \in LookupLabels}
    \cup
    {[op |-> op, auth |-> AuthUser(User1), id |-> id, documentId |-> d, badJson |-> FALSE,
      payload |-> [FOOD_PERMIT EXCEPT !.jurisdictionName = x,
                                      !.issuingAuthorityName = y]] :
        op \in {"DocumentsPOST", "DocumentPATCH"},
        id \in BusinessParams, d \in DocumentParams,
        x \in LookupLabels, y \in LookupLabels}
    \cup
    {[op |-> "SubmitPOST", auth |-> a, badJson |-> FALSE,
      payload |-> [SUBMISSION EXCEPT !.businessTypeName = x, !.jurisdictionName = y,
                                     !.issuingAuthorityName = y,
                                     !.permitTypeName = x]] :
        a \in Sessions, x \in LookupLabels, y \in LookupLabels}

\* C13: requests handled one at a time keep lookup names unique: in every
\* reachable state each lookup table has at most one row per name and per
\* id, and every create, update or submit leaves a table as it is when its
\* label is blank or already present, and otherwise adds at most one row, of
\* that name.
C13_LookupNamesStayUnique ==
    /\ \A f \in LookupFields : \A r1, r2 \in LookupTables(DB)[f] :
          (r1.name = r2.name \/ r1.id = r2.id) => r1 = r2
    /\ \A req \in LookupRequests :
        LET tables == LookupTables(Route(DB, req).db)
        IN  \A f \in LookupFields :
          LET before == LookupTables(DB)[f]
              after == tables[f]
              label == LabelOf(req, f)
          IN  /\ before \subseteq after
              /\ (label = <<>> \/ \E r \in before : r.name = label) => after = before
              /\ Cardinality(after \ before) <= 1
              /\ \A r \in after \ before : r.name = label

\* A document was created under the jurisdiction label of its company: the
\* table still has the one row, and both point at it.
C13_Witness ==
    /\ last.req.op = "DocumentsPOST"
    /\ last.resp.status = 201
    /\ last.resp.body.jurisdictionName = Str(AUSTIN)
    /\ Cardinality(jurisdictions) = 1
    /\ \E b \in businesses : \E d \in documents : \E j \in jurisdictions :
          /\ d.businessId = b.id
          /\ b.jurisdictionId = Num(j.id)
          /\ d.jurisdictionId = Num(j.id)

\* The link of a company after an update that supplied `label` (trimmed):
\* null for a blank label, else the id of the row of `table` with that name.
LinkedTo(label, table, link) ==
    IF label = <<>>
    THEN link = Null
    ELSE \E row \in table : row.name = label /\ link = Num(row.id)

\* C15: an update of a company by its owner, for each of businessTypeName
\* and jurisdictionName, sets the link to null when the label is blank and
\* to the lookup row of that name when it is not, whatever the link was
\* before; the response shows the same.
C15_UpdateSetsOrClearsLinks ==
    \A a \in Sessions : \A id \in CompaniesOf(a.user) :
        \A x \in LookupLabels \cup {Str(RESTAURANT)} : \A y \in LookupLabels :
            LET req == [op |-> "BusinessPATCH", auth |-> a, id |-> id, badJson |-> FALSE,
                        payload |-> [ACME EXCEPT !.businessTypeName = x,
                                                 !.jurisdictionName = y]]
                r == BusinessPATCH(DB, req)
                updated == CHOOSE b \in r.db.businesses : b.id = parseId(id).v
                t == LabelOf(req, "businessTypeName")
                j == LabelOf(req, "jurisdictionName")
            IN  /\ r.resp.status = 200
                /\ LinkedTo(t, r.db.businessTypes, updated.businessTypeId)
                /\ LinkedTo(j, r.db.jurisdictions, updated.jurisdictionId)
                /\ r.resp.body.businessTypeName = (IF t = <<>> THEN Null ELSE Str(t))
                /\ r.resp.body.jurisdictionName = (IF j = <<>> THEN Null ELSE Str(j))

\* A company created as a restaurant in Austin was updated with the type
\* "Bakery" and a blank jurisdiction: it is a bakery with no jurisdiction.
C15_Witness ==
    /\ last.req.op = "BusinessPATCH"
    /\ last.resp.status = 200
    /\ last.resp.body.businessTypeName = Str(<<"Bakery">>)
    /\ last.resp.body.jurisdictionName = Null
    /\ \E b \in businesses : \E row \in businessTypes :
          /\ b.id = last.resp.body.id
          /\ row.name = <<"Bakery">>
          /\ b.businessTypeId = Num(row.id)
          /\ b.jurisdictionId = Null
    /\ \E row \in jurisdictions : row.name = AUSTIN

----------------------------------------------------------------------------
(* POST /api/businesses by requests in flight at once: findOrCreate is two  *)
(* round trips to the database, and another request may run between them.  *)

\* The request up to the findFirst of findOrCreateJurisdiction: the session is
\* resolved, the profile upserted, the payload read, the label looked up.
RaceFind(p, req) ==
    /\ inflight[p] = Idle
    /\ requireUser(DB, req.auth).outcome = "user"
    /\ ~req.badJson
    /\ TrimmedOrEmpty(req.payload.name) # <<>>
    /\ TrimmedOrEmpty(req.payload.businessTypeName) = <<>>
    /\ TrimmedOrEmpty(req.payload.jurisdictionName) # <<>>
    /\ users' = requireUser(DB, req.auth).db.users
    /\ inflight' = [inflight EXCEPT ![p] =
            [req |-> req,
             existing |-> FindByName(jurisdictions,
                                     TrimmedOrEmpty(req.payload.jurisdictionName))]]
    /\ UNCHANGED <<businesses, documents, businessTypes, jurisdictions,
                   issuingAuthorities, permitTypes, nextBusinessId, nextDocumentId,
                   uuidsUsed, objects, deletedBusinessIds, client, last>>

\* The company a request in flight creates once its lookup is resolved to ju.
RaceBusiness(db, req, ju) ==
    [id |-> db.nextBusinessId,
     userId |-> req.auth.user.id,
     name |-> TrimmedOrEmpty(req.payload.name),
     phone |-> Null,
     notes |-> Null,
     businessTypeId |-> Null,
     jurisdictionId |-> IdOrNull(ju.row)]

RaceAfter(db, req, ju) ==
    [db EXCEPT !.jurisdictions = ju.table,
               !.businesses = @ \cup {RaceBusiness(db, req, ju)},
               !.nextBusinessId = @ + 1]

\* The rest of the request: the row found is returned, else a row is created;
\* then the company is created and the response sent.
RaceInsert(p) ==
    /\ inflight[p] # Idle
    /\ LET req == inflight[p].req
           ju == IF inflight[p].existing # {}
                 THEN [row |-> FirstOf(inflight[p].existing), table |-> jurisdictions]
                 ELSE InsertLookup(jurisdictions,
                                   TrimmedOrEmpty(req.payload.jurisdictionName))
       IN  Commit(Reply(RaceAfter(DB, req, ju), 201, "",
                        mapBusiness(RaceAfter(DB, req, ju), RaceBusiness(DB, req, ju))),
                  req)
    /\ inflight' = [inflight EXCEPT ![p] = Idle]
    /\ UNCHANGED client

NextRace ==
    \/ \E p \in InFlight, u \in Identities, label \in {AUSTIN, <<" ">> \o AUSTIN} :
           RaceFind(p, [op |-> "BusinessPOST", auth |-> AuthUser(u), badJson |-> FALSE,
                        payload |-> [ACME EXCEPT !.jurisdictionName = Str(label)]])
    \/ \E p \in InFlight : RaceInsert(p)

SpecRace == Init /\ [][NextRace]_vars

\* C14: a request in flight whose find step found no row of its label inserts
\* one in its insert step, also when another request has inserted a row of
\* that label in between: the rows of that name grow by one, so two requests
\* that both found nothing leave two distinct rows of one name.
C14_StaleFindInsertsDuplicate ==
    [][\A p \in InFlight :
          (inflight[p] # Idle /\ inflight'[p] = Idle /\ inflight[p].existing = {})
              => Cardinality(FindByName(jurisdictions',
                      TrimmedOrEmpty(inflight[p].req.payload.jurisdictionName)))
                 = Cardinality(FindByName(jurisdictions,
                      TrimmedOrEmpty(inflight[p].req.payload.jurisdictionName))) + 1]_vars

\* Two requests with the label Austin have both completed, and two distinct
\* rows are named Austin.
C14_Witness ==
    /\ \A p \in InFlight : inflight[p] = Idle
    /\ last.req.op = "BusinessPOST" /\ last.resp.status = 201
    /\ Cardinality(FindByName(jurisdictions, AUSTIN)) = 2
    /\ \E b1, b2 \in businesses :
           /\ b1.jurisdictionId # b2.jurisdictionId
           /\ LookupName(jurisdictions, b1.jurisdictionId) = Str(AUSTIN)
           /\ LookupName(jurisdictions, b2.jurisdictionId) = Str(AUSTIN)

----------------------------------------------------------------------------
(* SpecPermits: the extraction gateway with and without a file, a session, a
   reference, a working storage service and a working model, and the save
   of what it returned. *)

\* The path the gateway stores the first upload of `user` at.
FirstUpload(user) == PathOf(user.id, "f1") \o <<".", "pdf">>

\* The references a form carries: none, the bucket alone, a file of User1
\* in the designated bucket, the same path in another bucket.
PermitForms ==
    {PermitForm,
     [PermitForm EXCEPT !.sourceFileBucket = Str(PERMIT_FILES_BUCKET)],
     [PermitForm EXCEPT !.sourceFileBucket = Str(PERMIT_FILES_BUCKET),
                        !.sourceFilePath = Str(FirstUpload(User1))],
     [PermitForm EXCEPT !.sourceFileBucket = Str(<<"avatars">>),
                        !.sourceFilePath = Str(FirstUpload(User1))]}

ModelAnswers ==
    {[kind |-> "throw"], [kind |-> "empty"], [kind |-> "unparseable"], [kind |-> "array"],
     [kind |-> "object", parsed |-> [ModelObject EXCEPT !.title = Str(<<"Food permit">>)]]}

\* Every request of the gateway the claims speak of.
PermitsRequests ==
    {[op |-> "PermitsPOST", auth |-> a, file |-> f, form |-> form,
      uploadOk |-> ok, model |-> m] :
        a \in Auths, f \in {Null, UploadedFile}, form \in PermitForms,
        ok \in BOOLEAN, m \in ModelAnswers}

NextPermits ==
    \/ DoPermitsPOST({req \in PermitsRequests :
            /\ req.auth \in {AuthUser(User1), AuthNone}
            /\ req.form.sourceFileBucket # Null => req.form.sourceFilePath # Null
            /\ req.model.kind \in {"throw", "empty", "object"}})
    \/ DoSubmitPOST({[op |-> "SubmitPOST", auth |-> AuthUser(User1), badJson |-> FALSE,
                      payload |-> [SUBMISSION EXCEPT
                          !.sourceFileBucket = Str(PERMIT_FILES_BUCKET),
                          !.sourceFilePath = Str(FirstUpload(User1))]]})

SpecPermits == Init /\ [][NextPermits]_vars

\* The tables of the database (the bucket of the storage service is not one).
Tables(db) ==
    <<db.users, db.businesses, db.documents, db.businessTypes, db.jurisdictions,
      db.issuingAuthorities, db.permitTypes, db.nextBusinessId, db.nextDocumentId>>

\* C16: whatever the request to the gateway (file or none, session or none,
\* reference or upload, storage and model working or failing), the user,
\* company, document and lookup tables after it are those before it.
C16_GatewayPersistsNothing ==
    \A req \in PermitsRequests : Tables(PermitsPOST(DB, req).db) = Tables(DB)

\* The gateway has uploaded a file and returned fields for it, and no user
\* row and no document exists.
C16_Witness ==
    /\ last.req.op = "PermitsPOST" /\ last.resp.status = 200
    /\ last.resp.calls = <<"upload", "model">>
    /\ objects = {FirstUpload(User1)}
    /\ users = {} /\ documents = {}

\* The calls of a response that are uploads.
Uploads(calls) == SelectSeq(calls, LAMBDA c : c = "upload")

\* C17: for a request with a file and a session, a reference in the
\* designated bucket under the caller's id is reused (no upload, bucket and
\* path returned as supplied); with no reference there is exactly one upload,
\* to a path under the caller's id; any other reference is answered 400 with
\* neither an upload nor a model call.
C17_ReferenceReusedOrUploadedOnce ==
    \A req \in PermitsRequests :
        (req.file # Null /\ req.auth.kind = "user") =>
            LET r == PermitsPOST(DB, req)
                caller == req.auth.user
                supplied == IsStr(req.form.sourceFileBucket) /\ IsStr(req.form.sourceFilePath)
                own == /\ req.form.sourceFileBucket = Str(<<"permit-files">>)
                       /\ req.form.sourceFilePath = Str(FirstUpload(caller))
            IN  IF supplied /\ own
                THEN /\ Uploads(r.resp.calls) = <<>> /\ r.db.objects = objects
                     /\ r.resp.status = 200 =>
                            /\ r.resp.body.sourceFile.bucket = req.form.sourceFileBucket.v
                            /\ r.resp.body.sourceFile.path = req.form.sourceFilePath.v
                ELSE IF supplied
                THEN r.resp.status = 400 /\ r.resp.calls = <<>> /\ r.db.objects = objects
                ELSE /\ Uploads(r.resp.calls) = <<"upload">>
                     /\ \A path \in r.db.objects \ objects :
                            SubSeq(path, 1, Len(caller.id) + 1) = caller.id \o <<"/">>
                     /\ Cardinality(r.db.objects \ objects) = (IF req.uploadOk THEN 1 ELSE 0)
                     /\ r.resp.status = 200 =>
                            r.db.objects \ objects = {r.resp.body.sourceFile.path}

\* The gateway has answered for a supplied reference of the caller: no object
\* was ever uploaded and the reference is returned.
C17_Witness ==
    /\ last.req.op = "PermitsPOST" /\ last.resp.status = 200
    /\ last.req.form.sourceFilePath = Str(FirstUpload(User1))
    /\ last.resp.calls = <<"model">>
    /\ last.resp.body.sourceFile.path = FirstUpload(User1)
    /\ last.resp.body.sourceFile.bucket = PERMIT_FILES_BUCKET
    /\ objects = {}

C19_NoExceptionEscapes == last.resp.kind # "unhandled"

----------------------------------------------------------------------------
(* The size of a file reference, under SpecFile. *)

\* The bucket and path are the caller's and the size is a number that is
\* finite and not negative, or a string Number.parseInt reads one from.
NonNegativeValid(p, user) ==
    /\ AmendedValid(p, user)
    /\ IF IsStr(p.sourceFileSize)
       THEN ParseInt(p.sourceFileSize.v).v >= 0
       ELSE p.sourceFileSize.v >= 0

\* C20: in document create and update a reference with a valid bucket and
\* path is stored exactly when its size is a finite number that is not
\* negative and is rejected with 400 otherwise, and every stored
\* sourceFileSize is null or at least 0.
C20_StoredSizeIsNonNegative ==
    /\ ReferenceRule(NonNegativeValid)
    /\ \A d \in documents : d.sourceFileSize = Null \/ d.sourceFileSize.v >= 0

----------------------------------------------------------------------------
(* SpecStorage: a file is uploaded by the gateway, saved as the reference of
   a document, relayed, cleared from the document, and its company deleted. *)

\* The payload of a document with the reference the gateway returned.
WithReference(payload, meta) ==
    [payload EXCEPT !.sourceFileBucket = Str(meta.bucket),
                    !.sourceFilePath = Str(meta.path),
                    !.sourceFileContentType = Str(meta.contentType),
                    !.sourceFileName = Str(meta.name),
                    !.sourceFileSize = Num(meta.size)]

\* What the gateway returns for the first upload of `user`.
FirstUploadMeta(user) ==
    [bucket |-> PERMIT_FILES_BUCKET, path |-> FirstUpload(user),
     contentType |-> UploadedFile.type, name |-> UploadedFile.name,
     size |-> UploadedFile.size]

NextStorage ==
    \/ DoPermitsPOST({[op |-> "PermitsPOST", auth |-> AuthUser(User1), file |-> UploadedFile,
                       form |-> PermitForm, uploadOk |-> TRUE, model |-> m] :
                          m \in {[kind |-> "throw"],
                                 [kind |-> "object",
                                  parsed |-> [ModelObject EXCEPT
                                                 !.title = Str(<<"Food permit">>)]]}})
    \/ DoBusinessPOST({[op |-> "BusinessPOST", auth |-> a, badJson |-> FALSE,
                        payload |-> ACME] : a \in Sessions})
    \/ DoDocumentsPOST({[op |-> "DocumentsPOST", auth |-> AuthUser(User1), id |-> id,
                         badJson |-> FALSE, payload |-> p] :
                            id \in BusinessParams,
                            p \in {FOOD_PERMIT,
                                   WithReference(FOOD_PERMIT, FirstUploadMeta(User1))}})
    \/ DoDocumentPATCH({[op |-> "DocumentPATCH", auth |-> AuthUser(User1), id |-> id,
                         documentId |-> d, badJson |-> FALSE,
                         payload |-> Cleared(FOOD_PERMIT)] :
                            id \in BusinessParams, d \in DocumentParams})
    \/ DoBusinessDELETE({[op |-> "BusinessDELETE", auth |-> AuthUser(User1), id |-> id] :
                            id \in BusinessParams})
    \/ DoFileGET({[op |-> "FileGET", auth |-> AuthUser(User1), id |-> id,
                   documentId |-> d, storageUp |-> up] :
                      id \in BusinessParams, d \in DocumentParams, up \in BOOLEAN})

SpecStorage == Init /\ [][NextStorage]_vars

\* Every request to the relay the claim speaks of.
RelayRequests ==
    {[op |-> "FileGET", auth |-> a, id |-> id, documentId |-> d, storageUp |-> up] :
        a \in Auths, id \in BusinessParams \cup {<<"x">>}, d \in DocumentParams,
        up \in BOOLEAN}

\* The documents of db with the given ids, in a company of the given user.
RelayDocuments(db, businessId, documentId, userId) ==
    {d \in db.documents :
        /\ d.id = documentId /\ d.businessId = businessId
        /\ \E b \in db.businesses : b.id = businessId /\ b.userId = userId}

\* The relay on the database db: a download is attempted exactly for a
\* document of the given company, owned by the requester, with a bucket and
\* a path, the bucket being the designated one; bytes are streamed only
\* then, and are those of the stored path.
RelayRule(db) ==
    \A req \in RelayRequests :
        LET r == FileGET(db, req)
            found == IF req.auth.kind = "user" /\ req.id # <<"x">>
                     THEN RelayDocuments(db, parseId(req.id).v, parseId(req.documentId).v,
                                         req.auth.user.id)
                     ELSE {}
            referenced == {d \in found : /\ d.sourceFileBucket \notin {Null, Str(<<>>)}
                                         /\ d.sourceFilePath \notin {Null, Str(<<>>)}}
            entitled == {d \in referenced : d.sourceFileBucket = Str(<<"permit-files">>)}
        IN  /\ r.db.objects = db.objects
            /\ r.resp.calls = (IF entitled # {} THEN <<"download">> ELSE <<>>)
            /\ r.resp.kind = "bytes" =>
                   \E d \in entitled : /\ r.resp.body.path = d.sourceFilePath.v
                                        /\ r.resp.body.path \in db.objects
            /\ (entitled # {} /\ req.storageUp
                   /\ \E d \in entitled : d.sourceFilePath.v \in db.objects)
                   => r.resp.kind = "bytes"
            /\ (req.auth.kind = "user" /\ req.id # <<"x">> /\ entitled = {}) =>
                   IF referenced # {}
                   THEN r.resp.status = 400 /\ r.resp.error = "Invalid file reference"
                   ELSE r.resp.status = 404

\* The database with the bucket of document d replaced (inconsistent data).
WithBucket(db, d, bucket) ==
    [db EXCEPT !.documents = (@ \ {d}) \cup {[d EXCEPT !.sourceFileBucket = bucket]}]

\* C21: the relay downloads and streams only for a document of the given
\* company, owned by the requester, that has a bucket and a path, the bucket
\* being the designated one; otherwise it answers 404 (no such document, no
\* file reference) or 400 (another bucket) and sends nothing to storage.
C21_RelayStreamsOwnFilesOnly ==
    /\ RelayRule(DB)
    /\ \A d \in documents : RelayRule(WithBucket(DB, d, Str(<<"avatars">>)))

\* The owner has been streamed the file of a document.
C21_Witness ==
    /\ last.req.op = "FileGET" /\ last.resp.kind = "bytes"
    /\ last.resp.calls = <<"download">>
    /\ last.resp.body.path \in objects
    /\ \E d \in documents, b \in businesses :
           /\ d.id = parseId(last.req.documentId).v /\ d.businessId = b.id
           /\ b.id = parseId(last.req.id).v /\ b.userId = last.req.auth.user.id
           /\ d.sourceFilePath = Str(last.resp.body.path)

----------------------------------------------------------------------------
(* The four copies of normalizeCategory and normalizeStatus. *)

\* Spellings of one category and of one status: in either case, padded or
\* not, the words of the status joined by an underscore, a hyphen, spaces, or
\* spaces around either.
Padding == {<<>>, <<" ">>, <<"\t", " ">>}
Joints == {<<"_">>, <<"-">>, <<" ">>, <<" ", " ">>, <<" ", "-", " ">>, <<"_", " ">>}
LicenseSpellings ==
    {Str(l \o <<w>> \o r) : l \in Padding, r \in Padding, w \in {"license", "LICENSE"}}
PendingRenewalSpellings ==
    {Str(l \o <<w1>> \o j \o <<w2>> \o r) :
        l \in Padding, r \in Padding, j \in Joints,
        w1 \in {"pending", "PENDING"}, w2 \in {"renewal", "RENEWAL"}}

\* Values that are no category and no status: other words, and what is not
\* a string.
Unrecognized ==
    {Str(<<"zoning">>), Str(<<>>), Str(<<" ">>), Undef, Null, Num(5), Num(0), Bool(TRUE)}

NormalizerInputs == LicenseSpellings \cup PendingRenewalSpellings \cup Unrecognized

\* C22: every spelling of a category or status that differs from the
\* enumerated value by case, spacing or the hyphen or underscore between its
\* words is normalized to that value; every other input to PERMIT and
\* ACTIVE; and the copies of the create and update routes, of the gateway and
\* of the submit route return the same value for every input, so that a
\* submission stores what a create with the same values stores.
C22_NormalizersAgree ==
    /\ \A v \in LicenseSpellings : normalizeCategory(v) = <<"LICENSE">>
    /\ \A v \in PendingRenewalSpellings : normalizeStatus(v) = <<"PENDING", "_", "RENEWAL">>
    /\ \A v \in Unrecognized :
           normalizeCategory(v) = <<"PERMIT">> /\ normalizeStatus(v) = <<"ACTIVE">>
    /\ \A v \in NormalizerInputs :
           LET r == SubmitPOST(DB, [op |-> "SubmitPOST", auth |-> AuthUser(User2),
                                    badJson |-> FALSE,
                                    payload |-> [SUBMISSION EXCEPT !.documentCategory = v,
                                                                   !.status = v]])
           IN  /\ r.resp.kind = "json" /\ r.resp.status = 201
               /\ r.resp.body.document.documentCategory = normalizeCategory(v)
               /\ r.resp.body.document.status = normalizeStatus(v)
    /\ \A v \in NormalizerInputs :
           /\ normalizeCategoryExtract(v) = normalizeCategory(v)
           /\ normalizeCategorySubmit(v) = normalizeCategory(v)
           /\ normalizeStatusExtract(v) = normalizeStatus(v)
           /\ normalizeStatusSubmit(v) = normalizeStatus(v)

----------------------------------------------------------------------------
(* The status the gateway returns, and the dates it returns with it. *)

\* The decision procedure of the prompt: pending activation if the start is
\* after today, else expired if the end is before today, else active; start
\* and end are ISO days or "".
StatusByDates(start, end, today) ==
    IF start # <<>> /\ DateOf(start).v > DateOf(today).v
    THEN <<"PENDING", "_", "ACTIVATION">>
    ELSE IF end # <<>> /\ DateOf(end).v < DateOf(today).v
    THEN <<"EXPIRED">>
    ELSE <<"ACTIVE">>

\* What the hosted model may answer for a document: its dates, and any
\* status of the list the prompt gives, or none.
DatedAnswers ==
    {[kind |-> "object",
      parsed |-> [ModelObject EXCEPT !.start_date = d[1], !.end_date = d[2], !.status = st]] :
        d \in {<<Str(<<"2025-01-01">>), Str(<<"2025-12-31">>)>>,
               <<Str(<<"2026-01-01">>), Str(<<>>)>>,
               <<Str(<<>>), Str(<<"2025-01-01">>)>>},
        st \in {Str(x) : x \in DocumentStatus} \cup {Undef}}

\* C23: the status the gateway returns for an uploaded document is the one
\* the decision procedure gives for the start and end date it returns and
\* the current date (2025-06-01 in the model).
C23_StatusFollowsDates ==
    \A m \in DatedAnswers :
        LET r == PermitsPOST(DB, [op |-> "PermitsPOST", auth |-> AuthUser(User1),
                                  file |-> UploadedFile, form |-> PermitForm,
                                  uploadOk |-> TRUE, model |-> m])
        IN  /\ r.resp.status = 200
            /\ r.resp.body.fields.status =
                   StatusByDates(r.resp.body.fields.startDate,
                                 r.resp.body.fields.endDate, UPLOAD_DAY)

----------------------------------------------------------------------------
(* The permit form of the dashboard page: a file is chosen and its fields
   extracted, the fields are refreshed, and a refresh starts a cooldown.
   One tick of the page's clock is 30 seconds. *)

\* PERMIT_REFRESH_COOLDOWN_MS, in ticks.
PERMIT_REFRESH_COOLDOWN == 2

\* String(n) of a size.
DigitChunk(d) ==
    CASE d = 0 -> "0" [] d = 1 -> "1" [] d = 2 -> "2" [] d = 3 -> "3" [] d = 4 -> "4"
      [] d = 5 -> "5" [] d = 6 -> "6" [] d = 7 -> "7" [] d = 8 -> "8" [] d = 9 -> "9"
RECURSIVE Decimal(_)
Decimal(n) == IF n < 10 THEN <<DigitChunk(n)>> ELSE Decimal(n \div 10) \o <<DigitChunk(n % 10)>>

\* The form data extractPermitFromFile sends with the file: the reference of
\* the page's state, when it has one.
FormDataOf(meta) ==
    IF meta = Null \/ meta.bucket = <<>> \/ meta.path = <<>>
    THEN PermitForm
    ELSE [sourceFileBucket |-> Str(meta.bucket),
          sourceFilePath |-> Str(meta.path),
          sourceFileContentType |-> IF meta.contentType # <<>> THEN Str(meta.contentType) ELSE Null,
          sourceFileName |-> IF meta.name # <<>> THEN Str(meta.name) ELSE Null,
          sourceFileSize |-> IF meta.size # 0 THEN Str(Decimal(meta.size)) ELSE Null]

\* The start of extractPermitFromFile, up to the fetch.
StartExtraction(page, isRefresh) ==
    [page EXCEPT !.permitExtractionLoading = TRUE, !.isRefresh = isRefresh,
                 !.form = FormDataOf(client.permitSourceFileMeta),
                 !.error = "", !.sentAt = Num(client.now)]

\* The clock of the page, and the interval of the countdown effect, which
\* clears a cooldown that has run out.
ClientTick ==
    /\ client.now < MaxNow
    /\ client' = [client EXCEPT
           !.now = @ + 1,
           !.nextPermitRefreshAt =
               IF @ # Null /\ @.v - (client.now + 1) <= 0 THEN Null ELSE @]
    /\ UNCHANGED <<users, businesses, documents, businessTypes, jurisdictions,
                   issuingAuthorities, permitTypes, nextBusinessId, nextDocumentId,
                   uuidsUsed, objects, deletedBusinessIds, inflight, last>>

\* handlePermitFileChange with a file chosen and a company selected (the
\* model has one extraction in flight at a time).
handlePermitFileChange ==
    /\ ~client.permitExtractionLoading
    /\ client' = StartExtraction([client EXCEPT !.permitSourceFile = UploadedFile,
                                                !.nextPermitRefreshAt = Null,
                                                !.permitSourceFileMeta = Null], FALSE)
    /\ UNCHANGED <<users, businesses, documents, businessTypes, jurisdictions,
                   issuingAuthorities, permitTypes, nextBusinessId, nextDocumentId,
                   uuidsUsed, objects, deletedBusinessIds, inflight, last>>

handlePermitRefresh ==
    /\ client' =
          IF client.permitSourceFile = Null
          THEN [client EXCEPT !.error = "Upload a permit file before refreshing fields"]
          ELSE IF client.permitExtractionLoading THEN client
          ELSE IF client.nextPermitRefreshAt # Null
                  /\ client.nextPermitRefreshAt.v - client.now > 0
          THEN [client EXCEPT !.error = "Please wait before refreshing again"]
          ELSE StartExtraction(client, TRUE)
    /\ UNCHANGED <<users, businesses, documents, businessTypes, jurisdictions,
                   issuingAuthorities, permitTypes, nextBusinessId, nextDocumentId,
                   uuidsUsed, objects, deletedBusinessIds, inflight, last>>

\* The request the page has in flight.
ExtractionRequest(uploadOk, model) ==
    [op |-> "PermitsPOST", auth |-> AuthUser(User1), file |-> client.permitSourceFile,
     form |-> client.form, uploadOk |-> uploadOk, model |-> model]

\* The page after the response r: the rest of extractPermitFromFile, and of
\* handlePermitRefresh when it was the caller.
AfterExtraction(r) ==
    IF r.resp.kind = "json" /\ r.resp.status = 200
    THEN [client EXCEPT !.permitExtractionLoading = FALSE,
                        !.permitSourceFileMeta = r.resp.body.sourceFile,
                        !.succeededAt = Num(client.now),
                        !.refreshedAt = IF client.isRefresh THEN Num(client.now) ELSE @,
                        !.nextPermitRefreshAt =
                            IF client.isRefresh
                            THEN Num(client.now + PERMIT_REFRESH_COOLDOWN)
                            ELSE @]
    ELSE [client EXCEPT !.permitExtractionLoading = FALSE, !.error = r.resp.error]

\* The gateway handles the request in flight and the page gets the response.
ExtractionResponse(uploadOk, model) ==
    /\ client.permitExtractionLoading
    /\ Commit(PermitsPOST(DB, ExtractionRequest(uploadOk, model)),
              ExtractionRequest(uploadOk, model))
    /\ client' = AfterExtraction(PermitsPOST(DB, ExtractionRequest(uploadOk, model)))
    /\ UNCHANGED inflight

NextClient ==
    \/ ClientTick
    \/ handlePermitFileChange
    \/ handlePermitRefresh
    \/ \E uploadOk \in BOOLEAN, kind \in {"empty", "object"} :
           ExtractionResponse(uploadOk,
               IF kind = "empty" THEN [kind |-> "empty"]
               ELSE [kind |-> "object",
                     parsed |-> [ModelObject EXCEPT !.title = Str(<<"Food permit">>)]])

SpecClient == Init /\ [][NextClient]_vars

\* C24: a refresh of the fields is sent only when the cooldown has run since
\* the last successful extraction of the file, never while an extraction is
\* in flight; and a cooldown that is running was started by a successful
\* extraction.
C24_RepeatOnlyAfterCooldown ==
    /\ (client.permitExtractionLoading /\ client.isRefresh /\ client.succeededAt # Null)
           => client.sentAt.v >= client.succeededAt.v + PERMIT_REFRESH_COOLDOWN
    /\ client.nextPermitRefreshAt # Null =>
           /\ client.succeededAt # Null
           /\ client.nextPermitRefreshAt.v = client.succeededAt.v + PERMIT_REFRESH_COOLDOWN

----------------------------------------------------------------------------
(* Requests with no session, under Spec. *)

\* The requests of Spec made with no session or with one the provider
\* rejects.
UnauthenticatedRequests ==
    {req \in ProfileGETRequests \cup SpecProfilePATCH \cup BusinessGETRequests
              \cup SpecBusinessPOST \cup SpecBusinessPATCH \cup SpecBusinessDELETE
              \cup SpecDocumentsGET \cup SpecDocumentsPOST \cup SpecDocumentPATCH
              \cup SpecFileGET \cup SpecSubmitPOST \cup SpecPermitsPOST :
        req.auth.kind # "user"}

\* C25: a request made without an authenticated session leaves the user,
\* company, document and lookup tables as they were, in every route.
C25_NoSessionWritesNothing ==
    \A req \in UnauthenticatedRequests : Tables(Route(DB, req).db) = Tables(DB)

----------------------------------------------------------------------------
(* The reference the gateway returns, handed to the document routes. *)

\* The forms of an extraction call: those of PermitForms, a reference of
\* User1 with each kind of size field, and a path of another user.
ReferenceForms ==
    PermitForms
    \cup {[PermitForm EXCEPT !.sourceFileBucket = Str(PERMIT_FILES_BUCKET),
                             !.sourceFilePath = Str(FirstUpload(User1)),
                             !.sourceFileContentType = Str(<<" ", "image/png">>),
                             !.sourceFileName = Str(<<" ">>),
                             !.sourceFileSize = Str(size)] :
              size \in {<<>>, <<"1", "2">>, <<"-", "3">>, <<"a">>, <<" ", "7", "k">>}}
    \cup {[PermitForm EXCEPT !.sourceFileBucket = Str(PERMIT_FILES_BUCKET),
                             !.sourceFilePath = Str(FirstUpload(User2))]}

ExtractionCalls ==
    {[op |-> "PermitsPOST", auth |-> a, file |-> UploadedFile, form |-> form,
      uploadOk |-> ok, model |-> [kind |-> "object", parsed |-> ModelObject]] :
        a \in Sessions, form \in ReferenceForms, ok \in BOOLEAN}

\* The reference `meta` sent unchanged by `user` to the create route and to
\* the update route is taken: the decision is "set" with the same bucket,
\* path and size, no route answers 400, and a document written carries it.
ReferenceAccepted(db, meta, user) ==
    LET payload == WithReference(FOOD_PERMIT, meta)
        decision == resolveSourceFileDecision(payload, user.id)
    IN  /\ meta.bucket = PERMIT_FILES_BUCKET
        /\ StartsWith(meta.path, user.id \o <<"/">>)
        /\ meta.size \in Int
        /\ decision.action = "set"
        /\ decision.value.bucket = meta.bucket
        /\ decision.value.path = meta.path
        /\ decision.value.size = meta.size
        /\ \A id \in BusinessParams :
               LET created == DocumentsPOST(db, [op |-> "DocumentsPOST",
                                  auth |-> AuthUser(user), id |-> id,
                                  badJson |-> FALSE, payload |-> payload])
               IN  /\ created.resp.status # 400
                   /\ created.resp.status = 201 =>
                          /\ created.resp.body.sourceFilePath = Str(meta.path)
                          /\ created.resp.body.sourceFileBucket = Str(meta.bucket)
                          /\ created.resp.body.sourceFileSize = Num(meta.size)
        /\ \A id \in BusinessParams, d \in DocumentParams :
               LET updated == DocumentPATCH(db, [op |-> "DocumentPATCH",
                                  auth |-> AuthUser(user), id |-> id, documentId |-> d,
                                  badJson |-> FALSE, payload |-> payload])
               IN  /\ updated.resp.status # 400
                   /\ updated.resp.status = 200 =>
                          /\ updated.resp.body.sourceFilePath = Str(meta.path)
                          /\ updated.resp.body.sourceFileBucket = Str(meta.bucket)
                          /\ updated.resp.body.sourceFileSize = Num(meta.size)

\* The answers 200 of the gateway to the extraction calls of `user`.
SuccessfulExtractions(user) ==
    {r \in {PermitsPOST(DB, req) : req \in {c \in ExtractionCalls : c.auth = AuthUser(user)}} :
        r.resp.status = 200}

\* C26: the reference a successful extraction call returns to a user, freshly
\* uploaded or reused, is in the designated bucket, under the folder of that
\* user and of finite size, and the create and update routes take it with
\* the action "set" when the user sends it back unchanged.
C26_ReturnedReferenceIsAccepted ==
    \A user \in Identities : \A r \in SuccessfulExtractions(user) :
        ReferenceAccepted(r.db, r.resp.body.sourceFile, user)

\* The reference of an extraction has been sent to the create route, which
\* stored it in a new document; the object is in the bucket.
C26_Witness ==
    /\ last.req.op = "DocumentsPOST" /\ last.resp.status = 201
    /\ last.req.payload = WithReference(FOOD_PERMIT, FirstUploadMeta(User1))
    /\ FirstUpload(User1) \in objects
    /\ \E d \in documents : d.sourceFilePath = Str(FirstUpload(User1))

----------------------------------------------------------------------------
(* SpecReplace: documents with every field set, then updated. *)

\* A payload that sets every field of a document away from its default.
LIQUOR_LICENSE ==
    [WithFile(DocumentPayload, User1) EXCEPT
        !.title = Str(<<"Liquor license">>),
        !.permitNumber = Str(<<" ", "A">>),
        !.documentCategory = Str(<<"license">>),
        !.status = Str(<<"expired">>),
        !.startDate = Str(<<"2025-01-01">>),
        !.endDate = Str(<<"2025-12-31">>),
        !.autoRenew = Bool(TRUE),
        !.rawExtraction = Str(<<"raw">>),
        !.jurisdictionName = Str(AUSTIN),
        !.issuingAuthorityName = Str(<<"City">>)]

\* The payload with one of its fields left out.
Without(payload, field) == [payload EXCEPT ![field] = Undef]

ReplacedFields ==
    {"permitNumber", "documentCategory", "status", "startDate", "endDate", "autoRenew",
     "jurisdictionName", "issuingAuthorityName", "rawExtraction"}

\* The payloads of an update: the title alone, every field, every field but
\* one, no file fields, values that are not of the expected type, and a
\* null rawExtraction.
ReplacePayloads ==
    {FOOD_PERMIT, LIQUOR_LICENSE}
    \cup {Without(LIQUOR_LICENSE, field) : field \in ReplacedFields}
    \cup {[LIQUOR_LICENSE EXCEPT !.sourceFileBucket = Undef, !.sourceFilePath = Undef,
                                 !.sourceFileSize = Undef, !.title = Str(<<" ", "Renewal">>)],
          [FOOD_PERMIT EXCEPT !.status = Num(5), !.startDate = Str(<<"soon">>),
                              !.autoRenew = Str(<<"true">>), !.rawExtraction = Null,
                              !.jurisdictionName = Str(<<" ">>),
                              !.issuingAuthorityName = Str(<<"Travis">>)]}

NextReplace ==
    \/ DoBusinessPOST({[op |-> "BusinessPOST", auth |-> a, badJson |-> FALSE,
                        payload |-> ACME] : a \in Sessions})
    \/ DoDocumentsPOST({[op |-> "DocumentsPOST", auth |-> AuthUser(User1), id |-> id,
                         badJson |-> FALSE, payload |-> p] :
                            id \in BusinessParams, p \in {FOOD_PERMIT, LIQUOR_LICENSE}})
    \/ DoDocumentPATCH({[op |-> "DocumentPATCH", auth |-> AuthUser(User1), id |-> id,
                         documentId |-> d, badJson |-> FALSE, payload |-> p] :
                            id \in BusinessParams, d \in DocumentParams,
                            p \in {FOOD_PERMIT, Without(LIQUOR_LICENSE, "status"),
                                   Cleared(LIQUOR_LICENSE)}})
    \/ DoSubmitPOST({[op |-> "SubmitPOST", auth |-> AuthUser(User1), badJson |-> FALSE,
                      payload |-> [SUBMISSION EXCEPT
                                      !.businessName = Str(<<"Acme">>),
                                      !.permitTypeName = Str(<<"Food">>),
                                      !.rawExtraction = Str(<<"raw">>)]]})

SpecReplace == Init /\ [][NextReplace]_vars

\* The non-file columns an update writes are those of the payload alone: a
\* column whose field is omitted has its default, a link is null for a
\* blank or omitted label and else the row of that name.
ReplacedFrom(payload, after, db) ==
    /\ after.title = Trim(payload.title.v)
    /\ after.permitNumber = DocumentFields(payload, <<>>).permitNumber
    /\ after.documentCategory = normalizeCategory(payload.documentCategory)
    /\ after.status = normalizeStatus(payload.status)
    /\ after.startDate = parseDate(payload.startDate)
    /\ after.endDate = parseDate(payload.endDate)
    /\ after.autoRenew = (payload.autoRenew = Bool(TRUE))
    /\ LinkedTo(TrimmedOrEmpty(payload.jurisdictionName), db.jurisdictions,
                after.jurisdictionId)
    /\ LinkedTo(TrimmedOrEmpty(payload.issuingAuthorityName), db.issuingAuthorities,
                after.issuingAuthorityId)
    /\ payload.permitNumber = Undef => after.permitNumber = Null
    /\ payload.documentCategory = Undef => after.documentCategory = <<"PERMIT">>
    /\ payload.status = Undef => after.status = <<"ACTIVE">>
    /\ payload.startDate = Undef => after.startDate = Null
    /\ payload.endDate = Undef => after.endDate = Null
    /\ payload.autoRenew = Undef => after.autoRenew = FALSE
    /\ payload.jurisdictionName = Undef => after.jurisdictionId = Null
    /\ payload.issuingAuthorityName = Undef => after.issuingAuthorityId = Null

\* The file columns and rawExtractionJson are those of the row before when
\* the payload omits them, and rawExtractionJson is the payload's otherwise.
OmittedKept(payload, before, after) ==
    /\ (\A field \in DOMAIN FileColumnsOf(before) : payload[field] = Undef)
           => FileColumnsOf(after) = FileColumnsOf(before)
    /\ after.rawExtractionJson =
           (IF payload.rawExtraction = Undef THEN before.rawExtractionJson
            ELSE payload.rawExtraction)

\* C27: an update of a document by its owner overwrites title, permitNumber,
\* documentCategory, status, startDate, endDate, autoRenew and the two links
\* from the payload, an omitted field giving the default (PERMIT, ACTIVE,
\* null, false, no link) whatever the row held before; the file reference
\* and rawExtractionJson of the row stay when the payload omits them.
C27_UpdateReplacesAllButFileAndRaw ==
    \A a \in Sessions : \A id \in CompaniesOf(a.user) : \A d \in DocumentsIn(id) :
        \A payload \in ReplacePayloads :
            LET r == DocumentPATCH(DB, [op |-> "DocumentPATCH", auth |-> a, id |-> id,
                                        documentId |-> d, badJson |-> FALSE,
                                        payload |-> payload])
                after == CHOOSE x \in r.db.documents : x.id = parseId(d).v
            IN  /\ r.resp.status = 200
                /\ ReplacedFrom(payload, after, r.db)
                /\ OmittedKept(payload, Stored(d), after)
                /\ after.permitTypeId = Stored(d).permitTypeId

\* A document created with every field set, a file and a raw extraction was
\* updated with a payload of a title alone: its fields are the defaults, its
\* links are cleared, its file reference and raw extraction are still there.
C27_Witness ==
    /\ last.req.op = "DocumentPATCH" /\ last.resp.status = 200
    /\ last.req.payload = FOOD_PERMIT
    /\ \E x \in documents :
           /\ x.id = last.resp.body.id
           /\ x.title = <<"Food permit">>
           /\ x.status = <<"ACTIVE">> /\ x.documentCategory = <<"PERMIT">>
           /\ x.startDate = Null /\ x.autoRenew = FALSE /\ x.jurisdictionId = Null
           /\ x.rawExtractionJson = Str(<<"raw">>)
           /\ x.sourceFilePath = Str(PathOf(User1.id, "f1"))
    /\ \E row \in jurisdictions : row.name = AUSTIN

----------------------------------------------------------------------------
(* SpecIds: companies and documents created, updated, submitted to and
   deleted by two users. *)

NextIds ==
    \/ DoBusinessPOST({[op |-> "BusinessPOST", auth |-> a, badJson |-> FALSE,
                        payload |-> ACME] : a \in Sessions})
    \/ DoBusinessPATCH({[op |-> "BusinessPATCH", auth |-> a, id |-> id, badJson |-> FALSE,
                         payload |-> [ACME EXCEPT !.name = Str(<<"Acme", " ", "Foods">>)]] :
                            a \in Sessions, id \in BusinessParams})
    \/ DoBusinessDELETE({[op |-> "BusinessDELETE", auth |-> AuthUser(User1), id |-> id] :
                            id \in BusinessParams})
    \/ DoDocumentsPOST({[op |-> "DocumentsPOST", auth |-> AuthUser(User1), id |-> id,
                         badJson |-> FALSE, payload |-> FOOD_PERMIT] :
                            id \in BusinessParams})
    \/ DoDocumentPATCH({[op |-> "DocumentPATCH", auth |-> a, id |-> id,
                         documentId |-> d, badJson |-> FALSE,
                         payload |-> [FOOD_PERMIT EXCEPT !.status = Str(<<"expired">>)]] :
                            a \in Sessions, id \in BusinessParams, d \in DocumentParams})
    \/ DoSubmitPOST({[op |-> "SubmitPOST", auth |-> AuthUser(User1), badJson |-> FALSE,
                      payload |-> [SUBMISSION EXCEPT !.jurisdictionName = Str(AUSTIN)]]})

SpecIds == Init /\ [][NextIds]_vars

\* Every id of the table was handed out by the sequence, once.
HandedOut(table, next) ==
    /\ \A row \in table : row.id < next
    /\ \A row, other \in table : row.id = other.id => row = other

\* C28: in every step, a company that exists before and after keeps its id
\* and its user, a document that exists before and after keeps its id and
\* its company, and a new row gets an id no row had before; so a document
\* that still exists is in the company it was created under and a company
\* belongs to the user it was created for.
C28_IdsAndOwnersAreFixed ==
    [][/\ HandedOut(businesses, nextBusinessId) /\ HandedOut(documents, nextDocumentId)
       /\ nextBusinessId' >= nextBusinessId /\ nextDocumentId' >= nextDocumentId
       /\ \A b \in businesses : \A after \in businesses' :
              after.id = b.id => after.userId = b.userId
       /\ \A d \in documents : \A after \in documents' :
              after.id = d.id => after.businessId = d.businessId
       /\ \A after \in businesses' :
              (\A b \in businesses : b.id # after.id) => after.id >= nextBusinessId
       /\ \A after \in documents' :
              (\A d \in documents : d.id # after.id) => after.id >= nextDocumentId]_vars

\* After a company was deleted, a document of another company was updated
\* by its owner and is still in that company.
C28_Witness ==
    /\ last.req.op = "DocumentPATCH" /\ last.resp.status = 200
    /\ deletedBusinessIds # {}
    /\ \E d \in documents, b \in businesses :
           /\ d.id = last.resp.body.id /\ d.businessId = b.id
           /\ b.id = parseId(last.req.id).v /\ b.userId = last.req.auth.user.id

----------------------------------------------------------------------------
(* SpecLate: a company deleted while a create or an update of one of its
   documents is between its ownership check and its write. *)

\* A faulty variant of InsertDocument: the row is written whether or not its
\* company exists.
InsertOrphan(saved) == Saved(saved, 201)

\* prisma.businessDocument.create under the foreign key of businessId: the
\* statement fails when the company is not there, and the route answers 500.
InsertDocument(saved) ==
    IF \E b \in saved.db.businesses : b.id = saved.document.businessId
    THEN Saved(saved, 201)
    ELSE Reply(saved.db, 500, "Foreign key constraint violated", Null)

\* prisma.businessDocument.update({ where: { id } }): the statement fails
\* when no row has the id, and the route answers 500; else the data are
\* written on the row as it is.
UpdateRow(db, id, payload, title, decision) ==
    IF \A d \in db.documents : d.id # id
    THEN Reply(db, 500, "Record to update not found", Null)
    ELSE Saved(UpdateDocument(db, CHOOSE d \in db.documents : d.id = id,
                              payload, title, decision), 200)

\* The create route up to its ownership check: the caller's profile is
\* written, the company found.  The update route likewise.  A request takes
\* the first free slot, the slots being alike.
PassOwnership(p, req) ==
    /\ inflight[p] = Idle
    /\ \A q \in InFlight : q < p => inflight[q] # Idle
    /\ parseId(req.id) # Null
    /\ TrimmedOrEmpty(req.payload.title) # <<>>
    /\ requireUser(DB, req.auth).outcome = "user"
    /\ OwnedBusiness(requireUser(DB, req.auth).db, parseId(req.id), req.auth.user.id) # {}
    /\ users' = requireUser(DB, req.auth).db.users
    /\ inflight' = [inflight EXCEPT ![p] =
            [phase |-> "owned", req |-> req,
             business |-> CHOOSE b \in OwnedBusiness(DB, parseId(req.id),
                                                     req.auth.user.id) : TRUE]]
    /\ UNCHANGED <<businesses, documents, businessTypes, jurisdictions,
                   issuingAuthorities, permitTypes, nextBusinessId, nextDocumentId,
                   uuidsUsed, objects, deletedBusinessIds, client, last>>

\* The update route from its ownership check to its document check.
FindDocument(p) ==
    /\ inflight[p] # Idle /\ inflight[p].phase = "owned"
    /\ inflight[p].req.op = "DocumentPATCH"
    /\ LET req == inflight[p].req
           found == DocumentOf(DB, parseId(req.documentId), inflight[p].business)
       IN  IF found = {}
           THEN /\ Commit(Reply(DB, 404, "Permit not found", Null), req)
                /\ inflight' = [inflight EXCEPT ![p] = Idle]
           ELSE /\ inflight' = [inflight EXCEPT ![p] =
                       [phase |-> "found", req |-> req, business |-> inflight[p].business,
                        document |-> CHOOSE d \in found : TRUE]]
                /\ UNCHANGED <<users, businesses, documents, businessTypes, jurisdictions,
                               issuingAuthorities, permitTypes, nextBusinessId,
                               nextDocumentId, uuidsUsed, objects, deletedBusinessIds,
                               last>>
    /\ UNCHANGED client

\* The rest of the create route: the lookups, then the create statement.
LateCreate(db, flight) ==
    InsertDocument(CreateDocument(db, flight.business, flight.req.payload,
                                  TrimmedOrEmpty(flight.req.payload.title),
                                  resolveSourceFileDecision(flight.req.payload,
                                                            flight.req.auth.user.id)))

\* The rest of the update route: the update statement.
LateUpdate(db, flight) ==
    UpdateRow(db, flight.document.id, flight.req.payload,
              TrimmedOrEmpty(flight.req.payload.title),
              resolveSourceFileDecision(flight.req.payload, flight.req.auth.user.id))

LateWrite(p) ==
    /\ inflight[p] # Idle
    /\ \/ /\ inflight[p].phase = "owned" /\ inflight[p].req.op = "DocumentsPOST"
          /\ Commit(LateCreate(DB, inflight[p]), inflight[p].req)
       \/ /\ inflight[p].phase = "found"
          /\ Commit(LateUpdate(DB, inflight[p]), inflight[p].req)
    /\ inflight' = [inflight EXCEPT ![p] = Idle]
    /\ UNCHANGED client

\* The requests in flight are creates and updates in the first company; the
\* other companies are created and deleted beside it.
LateRequests ==
    {[op |-> "DocumentsPOST", auth |-> AuthUser(User1), id |-> id, badJson |-> FALSE,
      payload |-> [FOOD_PERMIT EXCEPT !.jurisdictionName = Str(AUSTIN)]] :
        id \in {<<IdChunk(1)>>}}
    \cup {[op |-> "DocumentPATCH", auth |-> AuthUser(User1), id |-> id, documentId |-> d,
           badJson |-> FALSE, payload |-> [FOOD_PERMIT EXCEPT !.status = Str(<<"expired">>)]] :
              id \in {<<IdChunk(1)>>}, d \in DocumentParams}

NextLate ==
    \/ DoBusinessPOST({[op |-> "BusinessPOST", auth |-> AuthUser(User1), badJson |-> FALSE,
                        payload |-> ACME]})
    \/ DoBusinessDELETE({[op |-> "BusinessDELETE", auth |-> AuthUser(User1), id |-> id] :
                            id \in BusinessParams})
    \/ \E p \in InFlight, req \in LateRequests : PassOwnership(p, req)
    \/ \E p \in InFlight : FindDocument(p)
    \/ \E p \in InFlight : LateWrite(p)

SpecLate == Init /\ [][NextLate]_vars

\* The request of slot p ends in this step, and its company was deleted
\* after its ownership check.
EndsAfterDelete(p) ==
    /\ inflight[p] # Idle /\ inflight'[p] = Idle
    /\ inflight[p].business.id \in deletedBusinessIds

\* C29: after every step each document is in a company that exists and no
\* document is in a deleted company; a create or an update that finishes
\* after the delete of its company, its ownership check passed before, is
\* answered with an error (500 from the failed statement, 404 when the
\* update had not yet looked for its document) and writes no document.
C29_LateWriteFails ==
    [][/\ \A d \in documents' :
              /\ \E b \in businesses' : b.id = d.businessId
              /\ d.businessId \notin deletedBusinessIds'
       /\ \A p \in InFlight :
              EndsAfterDelete(p) =>
                  /\ documents' = documents
                  /\ last'.req = inflight[p].req
                  /\ last'.resp.status =
                         (IF inflight[p].phase = "owned" /\ last'.req.op = "DocumentPATCH"
                          THEN 404 ELSE 500)]_vars

\* A create passed its ownership check, the company was deleted, and the
\* create was answered 500: no document exists, no request is in flight.
C29_Witness ==
    /\ last.req.op = "DocumentsPOST" /\ last.resp.status = 500
    /\ parseId(last.req.id).v \in deletedBusinessIds
    /\ documents = {}
    /\ \A p \in InFlight : inflight[p] = Idle

----------------------------------------------------------------------------
(* The objects of the bucket, under SpecStorage. *)

\* Some document refers to the object at `path`.
Referenced(path, rows) == \E d \in rows : d.sourceFilePath = Str(path)

\* C30: no step removes an object from the bucket.  An update that clears
\* the reference of a document, the delete of a company and every other
\* route but the gateway leave the bucket as it is, also when the last
\* reference to an object goes with them; an extraction whose upload
\* succeeded adds its object whether or not the model call that follows
\* succeeds.
C30_ObjectsAreNeverDeleted ==
    [][/\ objects \subseteq objects'
       /\ last'.req.op # "PermitsPOST" => objects' = objects
       /\ \A path \in objects :
              (Referenced(path, documents) /\ ~Referenced(path, documents'))
                  => path \in objects'
       /\ (last'.req.op = "PermitsPOST" /\ last'.resp.calls = <<"upload", "model">>)
              => Cardinality(objects') = Cardinality(objects) + 1]_vars

\* The model call of an extraction failed after the upload: the object is in
\* the bucket and no document refers to it.
C30_Witness ==
    /\ last.req.op = "PermitsPOST" /\ last.resp.kind = "unhandled"
    /\ last.resp.calls = <<"upload", "model">>
    /\ objects = {FirstUpload(User1)}
    /\ ~Referenced(FirstUpload(User1), documents)

\* An object is in the bucket that no document refers to, after the
\* reference to it was cleared or its company deleted.
OrphanAfterClearOrDelete ==
    /\ last.req.op \in {"DocumentPATCH", "BusinessDELETE"} /\ last.resp.status = 200
    /\ nextDocumentId > 1
    /\ \E path \in objects : ~Referenced(path, documents)

====
